---- MODULE Spec2Model ----
(***************************************************************************)
(* Chess Academy move-intelligence core                                    *)
(* (backend/features/chess_academy/router.py).                             *)
(*                                                                         *)
(* The first half of the module models the rules engine the router calls   *)
(* (the `chess` package: board, legal moves, push/pop, outcome tests); the *)
(* second half translates the router: evaluator, move orderer, negamax     *)
(* search, safety checker, difficulty policy and the request handlers.     *)
(*                                                                         *)
(* Numbers: scores are integers (centipawns); probabilities are per cent   *)
(* (0.6 is 60); math.inf is INF, larger than any score.                    *)
(***************************************************************************)
EXTENDS Integers, Sequences, FiniteSets, TLC

(***************************************************************************)
(* Squares, colours, pieces                                                *)
(***************************************************************************)
Squares == 0..63

WHITE == TRUE

BLACK == FALSE

PAWN == "pawn"

KNIGHT == "knight"

BISHOP == "bishop"

ROOK == "rook"

QUEEN == "queen"

KING == "king"

PIECE_TYPES == <<PAWN, KNIGHT, BISHOP, ROOK, QUEEN, KING>>

FILE_NAMES == <<"a", "b", "c", "d", "e", "f", "g", "h">>

RANK_NAMES == <<"1", "2", "3", "4", "5", "6", "7", "8">>

square_file(sq) == sq % 8

square_rank(sq) == sq \div 8

square(file, rank) == rank * 8 + file

square_name(sq) == FILE_NAMES[square_file(sq) + 1] \o RANK_NAMES[square_rank(sq) + 1]

parse_square(name) == CHOOSE sq \in Squares : square_name(sq) = name

Piece(piece_type, color) == [piece_type |-> piece_type, color |-> color]

\* chess.Piece.from_symbol: upper case is White, lower case is Black.
PIECE_SYMBOLS ==
  [P |-> Piece(PAWN, WHITE), N |-> Piece(KNIGHT, WHITE), B |-> Piece(BISHOP, WHITE),
   R |-> Piece(ROOK, WHITE), Q |-> Piece(QUEEN, WHITE), K |-> Piece(KING, WHITE),
   p |-> Piece(PAWN, BLACK), n |-> Piece(KNIGHT, BLACK), b |-> Piece(BISHOP, BLACK),
   r |-> Piece(ROOK, BLACK), q |-> Piece(QUEEN, BLACK), k |-> Piece(KING, BLACK)]

\* chess.Move(from_square, to_square, promotion); promotion "" is None.
Move(from_square, to_square, promotion) ==
  [from_square |-> from_square, to_square |-> to_square, promotion |-> promotion]

PROMOTION_LETTER == [queen |-> "q", rook |-> "r", bishop |-> "b", knight |-> "n"]

\* chess.Move.uci
uci(move) ==
  square_name(move.from_square) \o square_name(move.to_square)
    \o (IF move.promotion = "" THEN "" ELSE PROMOTION_LETTER[move.promotion])

Abs(x) == IF x < 0 THEN -x ELSE x

Sign(x) == IF x > 0 THEN 1 ELSE IF x < 0 THEN -1 ELSE 0

Max2(x, y) == IF x >= y THEN x ELSE y

\* scan_reversed: the squares from h8 down to a1.
DescSquares == [i \in 1..64 |-> 64 - i]

\* The concatenation of a sequence of sequences (by halves, to keep the
\* evaluation shallow).
RECURSIVE FlattenRange(_, _, _)
FlattenRange(seqs, lo, hi) ==
  IF lo > hi THEN <<>>
  ELSE IF lo = hi THEN seqs[lo]
  ELSE LET mid == (lo + hi) \div 2
       IN FlattenRange(seqs, lo, mid) \o FlattenRange(seqs, mid + 1, hi)

Flatten(seqs) == FlattenRange(seqs, 1, Len(seqs))

\* The sum of a sequence of numbers.
RECURSIVE SumRange(_, _, _)
SumRange(seq, lo, hi) ==
  IF lo > hi THEN 0
  ELSE IF lo = hi THEN seq[lo]
  ELSE LET mid == (lo + hi) \div 2
       IN SumRange(seq, lo, mid) + SumRange(seq, mid + 1, hi)

Sum(seq) == SumRange(seq, 1, Len(seq))

SeqMap(Op(_), s) == [i \in 1..Len(s) |-> Op(s[i])]

\* A piece of the given type and colour reaches a square (df, dr) files and ranks
\* away on an empty board (pawns: the squares they attack).
Reaches(piece_type, color, df, dr) ==
  CASE piece_type = PAWN -> Abs(df) = 1 /\ dr = (IF color = WHITE THEN 1 ELSE -1)
    [] piece_type = KNIGHT -> Abs(df) * Abs(dr) = 2
    [] piece_type = KING -> Max2(Abs(df), Abs(dr)) = 1
    [] piece_type = BISHOP -> Abs(df) = Abs(dr) /\ df # 0
    [] piece_type = ROOK -> (df = 0) # (dr = 0)
    [] piece_type = QUEEN -> (Abs(df) = Abs(dr) /\ df # 0) \/ ((df = 0) # (dr = 0))

GeometryReach(piece_type, color, from, to) ==
  Reaches(piece_type, color, square_file(to) - square_file(from),
          square_rank(to) - square_rank(from))

\* For each piece type, the squares reached from each square, from h8 down to a1
\* (the attack tables of the rules engine).
REACH ==
  [piece_type \in {KNIGHT, BISHOP, ROOK, QUEEN, KING} |->
     [i \in 1..64 |->
        SelectSeq(DescSquares,
                  LAMBDA to : GeometryReach(piece_type, WHITE, i - 1, to))] \o <<>>]
    @@ <<>>

A1 == parse_square("a1")

H1 == parse_square("h1")

A8 == parse_square("a8")

H8 == parse_square("h8")

(***************************************************************************)
(* A board: piece placement (a function on the occupied squares), side to  *)
(* move, castling rights (FEN letters), en-passant square (a set of at     *)
(* most one square), the clocks, and the stack push/pop keep.              *)
(***************************************************************************)
BoardState(board) ==
  [pieces |-> board.pieces, turn |-> board.turn, castling |-> board.castling,
   ep_square |-> board.ep_square, halfmove_clock |-> board.halfmove_clock,
   fullmove_number |-> board.fullmove_number]

\* chess.Board(fen): the position the FEN fields describe, with an empty stack.
Board(pieces, turn, castling, ep_square, halfmove_clock, fullmove_number) ==
  [pieces |-> pieces, turn |-> turn, castling |-> castling, ep_square |-> ep_square,
   halfmove_clock |-> halfmove_clock, fullmove_number |-> fullmove_number,
   stack |-> <<>>]

occupied(board) == DOMAIN board.pieces

piece_at(board, sq) == board.pieces[sq]

IsOwn(pieces, color, sq) == sq \in DOMAIN pieces /\ pieces[sq].color = color

\* The n - 1 squares passed on the way from `from` in steps of `step` are empty.
RayClear(occ, from, step, n) == \A k \in 1..(n - 1) : (from + k * step) \notin occ

\* Squares strictly between two aligned squares are all empty.
PathClear(occ, from, to) ==
  RayClear(occ, from,
           Sign(square_rank(to) - square_rank(from)) * 8
             + Sign(square_file(to) - square_file(from)),
           Max2(Abs(square_file(to) - square_file(from)),
                Abs(square_rank(to) - square_rank(from))))

\* chess.Board.attacks_mask(from) contains `to`.
Attacks(pieces, from, to) ==
  /\ GeometryReach(pieces[from].piece_type, pieces[from].color, from, to)
  /\ (pieces[from].piece_type \in {PAWN, KNIGHT, KING}
        \/ PathClear(DOMAIN pieces, from, to))

\* chess.Board.is_attacked_by on a placement.
AttackedBy(pieces, color, sq) ==
  \E from \in DOMAIN pieces : pieces[from].color = color /\ Attacks(pieces, from, sq)

is_attacked_by(board, color, sq) == AttackedBy(board.pieces, color, sq)

KingSquare(pieces, color) ==
  CHOOSE sq \in DOMAIN pieces : pieces[sq] = Piece(KING, color)

HasKing(pieces, color) == \E sq \in DOMAIN pieces : pieces[sq] = Piece(KING, color)

InCheck(pieces, color) ==
  HasKing(pieces, color) /\ AttackedBy(pieces, ~color, KingSquare(pieces, color))

\* chess.Board.is_check: the side to move is in check.
is_check(board) == InCheck(board.pieces, board.turn)

(***************************************************************************)
(* Move classification and push/pop                                        *)
(***************************************************************************)
\* chess.Board.is_en_passant
is_en_passant(board, move) ==
  /\ move.to_square \in board.ep_square
  /\ move.from_square \in DOMAIN board.pieces
  /\ board.pieces[move.from_square].piece_type = PAWN
  /\ Abs(move.to_square - move.from_square) \in {7, 9}
  /\ move.to_square \notin DOMAIN board.pieces

\* chess.Board.is_capture
is_capture(board, move) ==
  \/ IsOwn(board.pieces, ~board.turn, move.to_square)
  \/ is_en_passant(board, move)

\* chess.Board.is_castling: the king moves two files.
is_castling(board, move) ==
  /\ move.from_square \in DOMAIN board.pieces
  /\ board.pieces[move.from_square].piece_type = KING
  /\ Abs(square_file(move.from_square) - square_file(move.to_square)) > 1

\* The rook's <<from, to>> squares of a castling move.
CastlingRook(move) ==
  IF square_file(move.to_square) > square_file(move.from_square)
    THEN <<square(7, square_rank(move.from_square)),
           square(5, square_rank(move.from_square))>>
    ELSE <<square(0, square_rank(move.from_square)),
           square(3, square_rank(move.from_square))>>

\* The square the moved piece lands on: a castling king lands on the g- or c-file,
\* whether the move names that square or the rook's (chess.Board.push).
CastlingKingTo(board, move) ==
  IF is_castling(board, move)
    THEN square(IF square_file(move.to_square) > square_file(move.from_square)
                  THEN 6 ELSE 2,
                square_rank(move.from_square))
    ELSE move.to_square

\* The placement with the squares in `removed` emptied and the pieces of `placed`
\* (a function from squares) put down.
Replace(pieces, removed, placed) ==
  [sq \in ((DOMAIN pieces \ removed) \cup DOMAIN placed) |->
     IF sq \in DOMAIN placed THEN placed[sq] ELSE pieces[sq]]

\* The placement after `move` (captures, en passant, castling, promotion).
PiecesAfter(board, move) ==
  Replace(board.pieces,
          {move.from_square}
            \cup (IF is_en_passant(board, move)
                    THEN {move.to_square + (IF board.turn = WHITE THEN -8 ELSE 8)}
                    ELSE {})
            \cup (IF is_castling(board, move) THEN {CastlingRook(move)[1]} ELSE {}),
          (CastlingKingTo(board, move) :>
             (IF move.promotion = "" THEN board.pieces[move.from_square]
              ELSE Piece(move.promotion, board.turn)))
            @@ (IF is_castling(board, move)
                  THEN CastlingRook(move)[2] :> Piece(ROOK, board.turn)
                  ELSE <<>>))

\* Castling rights lost by a move from or to a corner, or by a king move.
CastlingAfter(board, move) ==
  board.castling
    \ ((IF A1 \in {move.from_square, move.to_square} THEN {"Q"} ELSE {})
         \cup (IF H1 \in {move.from_square, move.to_square} THEN {"K"} ELSE {})
         \cup (IF A8 \in {move.from_square, move.to_square} THEN {"q"} ELSE {})
         \cup (IF H8 \in {move.from_square, move.to_square} THEN {"k"} ELSE {})
         \cup (IF board.pieces[move.from_square].piece_type # KING THEN {}
               ELSE IF board.turn = WHITE THEN {"K", "Q"} ELSE {"k", "q"}))

\* The en-passant square a move leaves: the square a pawn's double step passes.
EpSquareAfter(board, move) ==
  IF /\ board.pieces[move.from_square].piece_type = PAWN
     /\ Abs(move.to_square - move.from_square) = 16
    THEN {(move.from_square + move.to_square) \div 2}
    ELSE {}

\* chess.Board.push
push(board, move) ==
  [pieces |-> PiecesAfter(board, move),
   turn |-> ~board.turn,
   castling |-> CastlingAfter(board, move),
   ep_square |-> EpSquareAfter(board, move),
   halfmove_clock |-> IF \/ board.pieces[move.from_square].piece_type = PAWN
                         \/ is_capture(board, move)
                        THEN 0 ELSE board.halfmove_clock + 1,
   fullmove_number |-> IF board.turn = BLACK THEN board.fullmove_number + 1
                       ELSE board.fullmove_number,
   stack |-> Append(board.stack, [move |-> move, state |-> BoardState(board)])]

\* pop that restores everything except the halfmove clock.
PopKeepsHalfmoveClock(board) ==
  [halfmove_clock |-> board.halfmove_clock] @@ board.stack[Len(board.stack)].state
    @@ [stack |-> SubSeq(board.stack, 1, Len(board.stack) - 1)]

\* chess.Board.pop: restore the state saved by the last push.
pop(board) ==
  board.stack[Len(board.stack)].state
    @@ [stack |-> SubSeq(board.stack, 1, Len(board.stack) - 1)]

(***************************************************************************)
(* Legal move generation, in the generator's order                         *)
(***************************************************************************)
PROMOTIONS == <<QUEEN, ROOK, BISHOP, KNIGHT>>

\* A pawn move to `to`, expanded to the four promotions on the last rank.
PawnMoves(from, to) ==
  IF square_rank(to) \in {0, 7}
    THEN [i \in 1..4 |-> Move(from, to, PROMOTIONS[i])]
    ELSE <<Move(from, to, "")>>

\* The moves from one square to each of `targets`.
MovesTo(from, targets) == [i \in 1..Len(targets) |-> Move(from, targets[i], "")]

\* The moves Op gives for each element of `s`, in order.
MovesOfEach(Op(_), s) == Flatten([i \in 1..Len(s) |-> Op(s[i])])

PieceMovesFrom(board, from) ==
  MovesTo(from,
          SelectSeq(REACH[board.pieces[from].piece_type][from + 1],
                    LAMBDA to : /\ ~IsOwn(board.pieces, board.turn, to)
                                /\ (board.pieces[from].piece_type \in {KNIGHT, KING}
                                      \/ PathClear(DOMAIN board.pieces, from, to))))

PawnCapturesFrom(board, from) ==
  MovesOfEach(LAMBDA to : PawnMoves(from, to),
              SelectSeq(DescSquares,
                        LAMBDA to : /\ IsOwn(board.pieces, ~board.turn, to)
                                    /\ Attacks(board.pieces, from, to)))

\* chess.Board.has_kingside_castling_rights / has_queenside_castling_rights
\* (clean_castling_rights: king and rook still on their home squares).
has_castling_rights(board, color, kingside) ==
  /\ (IF color = WHITE THEN (IF kingside THEN "K" ELSE "Q")
      ELSE (IF kingside THEN "k" ELSE "q")) \in board.castling
  /\ IsOwn(board.pieces, color, square(4, IF color = WHITE THEN 0 ELSE 7))
  /\ board.pieces[square(4, IF color = WHITE THEN 0 ELSE 7)].piece_type = KING
  /\ IsOwn(board.pieces, color,
           square(IF kingside THEN 7 ELSE 0, IF color = WHITE THEN 0 ELSE 7))
  /\ board.pieces[square(IF kingside THEN 7 ELSE 0,
                         IF color = WHITE THEN 0 ELSE 7)].piece_type = ROOK

has_kingside_castling_rights(board, color) == has_castling_rights(board, color, TRUE)

has_queenside_castling_rights(board, color) == has_castling_rights(board, color, FALSE)

\* The castling move of the side to move on one wing, if it may be played: the
\* right is held, the squares between king and rook are empty, and the king is
\* not attacked where it stands, passes or lands.
CastlingMove(board, kingside, rank) ==
  IF /\ has_castling_rights(board, board.turn, kingside)
     /\ PathClear(DOMAIN board.pieces, square(4, rank),
                  square(IF kingside THEN 7 ELSE 0, rank))
     /\ \A file \in (IF kingside THEN {4, 5, 6} ELSE {4, 3, 2}) :
          ~AttackedBy(board.pieces, ~board.turn, square(file, rank))
    THEN <<Move(square(4, rank), square(IF kingside THEN 6 ELSE 2, rank), "")>>
    ELSE <<>>

\* chess.Board.generate_castling_moves: h-side before a-side.
CastlingMoves(board) ==
  MovesOfEach(LAMBDA kingside :
                CastlingMove(board, kingside, IF board.turn = WHITE THEN 0 ELSE 7),
              <<TRUE, FALSE>>)

\* The squares, from h8 down to a1, holding a piece of the side to move that is
\* (or is not) a pawn.
OwnSquares(board, pawn) ==
  SelectSeq(DescSquares,
            LAMBDA sq : /\ IsOwn(board.pieces, board.turn, sq)
                        /\ (board.pieces[sq].piece_type = PAWN) = pawn)

\* The square `n` ranks ahead of a pawn of the side to move.
Ahead(board, sq, n) == IF board.turn = WHITE THEN sq + 8 * n ELSE sq - 8 * n

\* The pawns that can step one square, and those that can step two.  Pushes are
\* generated by target square, h8 down to a1: the same order as their pawns,
\* since every pawn of one side moves the same way.
SinglePushers(board) ==
  SelectSeq(OwnSquares(board, TRUE),
            LAMBDA sq : Ahead(board, sq, 1) \notin DOMAIN board.pieces)

DoublePushers(board) ==
  SelectSeq(SinglePushers(board),
            LAMBDA sq : /\ square_rank(sq) = (IF board.turn = WHITE THEN 1 ELSE 6)
                        /\ Ahead(board, sq, 2) \notin DOMAIN board.pieces)

\* The pawns that can capture en passant.
EnPassantCapturers(board) ==
  SelectSeq(OwnSquares(board, TRUE),
            LAMBDA sq : \E to \in board.ep_square :
                          to \notin DOMAIN board.pieces /\ Attacks(board.pieces, sq, to))

\* chess.Board.generate_pseudo_legal_moves
generate_pseudo_legal_moves(board) ==
  MovesOfEach(LAMBDA sq : PieceMovesFrom(board, sq), OwnSquares(board, FALSE))
    \o CastlingMoves(board)
    \o MovesOfEach(LAMBDA sq : PawnCapturesFrom(board, sq), OwnSquares(board, TRUE))
    \o MovesOfEach(LAMBDA sq : PawnMoves(sq, Ahead(board, sq, 1)), SinglePushers(board))
    \o MovesOfEach(LAMBDA sq : <<Move(sq, Ahead(board, sq, 2), "")>>,
                   DoublePushers(board))
    \o MovesOfEach(LAMBDA sq : <<Move(sq, CHOOSE to \in board.ep_square : TRUE, "")>>,
                   EnPassantCapturers(board))

\* The move does not leave the mover's king attacked.
KeepsKingSafe(board, move) == ~InCheck(PiecesAfter(board, move), board.turn)

\* One of `moves` does not leave the mover's king attacked.
AnyKeepsKingSafe(board, moves) ==
  \E i \in 1..Len(moves) : KeepsKingSafe(board, moves[i])

\* Under check the king's evasions come first.
EvasionsFirst(board, legal) ==
  IF is_check(board)
    THEN SelectSeq(legal, LAMBDA move :
                            board.pieces[move.from_square].piece_type = KING)
           \o SelectSeq(legal, LAMBDA move :
                                 board.pieces[move.from_square].piece_type # KING)
    ELSE legal

\* chess.Board.generate_legal_moves
generate_legal_moves(board) ==
  EvasionsFirst(board,
                SelectSeq(generate_pseudo_legal_moves(board),
                          LAMBDA move : KeepsKingSafe(board, move)))

\* `move` occurs in the sequence `moves`.
Contains(moves, move) == \E i \in 1..Len(moves) : moves[i] = move

\* chess.Board._from_chess960 (standard chess): a king on e1 or e8 moved onto the
\* corner of its rank is read as the castling move towards that corner.
_from_chess960(board, move) ==
  IF /\ move.promotion = ""
     /\ move.from_square \in {square(4, 0), square(4, 7)}
     /\ move.from_square \in DOMAIN board.pieces
     /\ board.pieces[move.from_square].piece_type = KING
     /\ move.to_square \in {square(0, square_rank(move.from_square)),
                            square(7, square_rank(move.from_square))}
    THEN Move(move.from_square,
              square(IF square_file(move.to_square) = 7 THEN 6 ELSE 2,
                     square_rank(move.from_square)),
              "")
    ELSE move

\* move in board.legal_moves (chess.Board.is_legal): a castling move is accepted
\* in either of its two encodings.
is_legal(board, move) == Contains(generate_legal_moves(board), _from_chess960(board, move))

\* chess.Board.gives_check: the opponent is in check once the move is made.
gives_check(board, move) == InCheck(PiecesAfter(board, move), ~board.turn)

(***************************************************************************)
(* Outcome tests of the rules engine                                       *)
(***************************************************************************)
\* any(board.generate_legal_moves())
HasLegalMove(board) == AnyKeepsKingSafe(board, generate_pseudo_legal_moves(board))

\* chess.Board.is_checkmate
is_checkmate(board) == is_check(board) /\ ~HasLegalMove(board)

\* chess.Board.is_stalemate
is_stalemate(board) == ~is_check(board) /\ ~HasLegalMove(board)

\* chess.Board.pieces(piece_type, color): the squares holding such a piece.
pieces(board, piece_type, color) ==
  {sq \in DOMAIN board.pieces : board.pieces[sq] = Piece(piece_type, color)}

IsLightSquare(sq) == (square_file(sq) + square_rank(sq)) % 2 = 1

\* The piece types standing on the squares of S.
TypesOn(board, S) == {board.pieces[sq].piece_type : sq \in S}

\* The occupied squares whose piece has (or has not) the colour.
SquaresOf(board, color, own) ==
  {sq \in DOMAIN board.pieces : (board.pieces[sq].color = color) = own}

\* All bishops on the board stand on squares of one colour.
BishopsOnOneColor(board) ==
  \/ \A sq \in DOMAIN board.pieces :
       board.pieces[sq].piece_type = BISHOP => IsLightSquare(sq)
  \/ \A sq \in DOMAIN board.pieces :
       board.pieces[sq].piece_type = BISHOP => ~IsLightSquare(sq)

\* chess.Board.has_insufficient_material
has_insufficient_material(board, color) ==
  IF TypesOn(board, SquaresOf(board, color, TRUE)) \cap {PAWN, ROOK, QUEEN} # {}
    THEN FALSE
  ELSE IF KNIGHT \in TypesOn(board, SquaresOf(board, color, TRUE))
    THEN /\ Cardinality(SquaresOf(board, color, TRUE)) <= 2
         /\ TypesOn(board, SquaresOf(board, color, FALSE)) \subseteq {KING, QUEEN}
  ELSE IF BISHOP \in TypesOn(board, SquaresOf(board, color, TRUE))
    THEN /\ BishopsOnOneColor(board)
         /\ TypesOn(board, DOMAIN board.pieces) \cap {PAWN, KNIGHT} = {}
  ELSE TRUE

\* chess.Board.is_insufficient_material
is_insufficient_material(board) ==
  has_insufficient_material(board, WHITE) /\ has_insufficient_material(board, BLACK)

\* chess.Board.is_seventyfive_moves
is_seventyfive_moves(board) == board.halfmove_clock >= 150 /\ HasLegalMove(board)

\* The part of a position that repetition compares.
TranspositionKey(state) ==
  [pieces |-> state.pieces, turn |-> state.turn, castling |-> state.castling,
   ep_square |-> state.ep_square]

\* chess.Board.is_fivefold_repetition: the position occurred four times before.
is_fivefold_repetition(board) ==
  Cardinality({i \in 1..Len(board.stack) :
                 TranspositionKey(board.stack[i].state) = TranspositionKey(board)}) >= 4

\* is_game_over overlooking stalemate.
GameOverUnlessStalemate(board) ==
  \/ is_checkmate(board)
  \/ is_insufficient_material(board)
  \/ board.halfmove_clock >= 150
  \/ is_fivefold_repetition(board)

\* chess.Board.is_game_over (claim_draw = False): checkmate, insufficient
\* material, no legal move, seventy-five moves or fivefold repetition.  With no
\* legal move the game is over whatever the clock says, so the clock decides
\* alone in the seventy-five-move test.
is_game_over(board) ==
  \/ ~HasLegalMove(board)
  \/ is_insufficient_material(board)
  \/ board.halfmove_clock >= 150
  \/ is_fivefold_repetition(board)

\* An en-passant capture is legal.
HasLegalEnPassant(board) ==
  SelectSeq(generate_legal_moves(board), LAMBDA move : is_en_passant(board, move)) # <<>>

\* chess.Board.fen: the FEN fields; the en-passant square is written only when an
\* en-passant capture is legal.
fen_of(board) ==
  [pieces |-> board.pieces, turn |-> board.turn, castling |-> board.castling,
   ep_square |-> IF HasLegalEnPassant(board) THEN board.ep_square ELSE {},
   halfmove_clock |-> board.halfmove_clock,
   fullmove_number |-> board.fullmove_number]

(***************************************************************************)
(* router.py: constants                                                    *)
(***************************************************************************)
CHECKMATE_SCORE == 100000

\* math.inf
INF == 1000000000

PIECE_VALUES ==
  [pawn |-> 100, knight |-> 320, bishop |-> 330, rook |-> 500, queen |-> 900,
   king |-> 20000]

PAWN_TABLE ==
  <<0, 0, 0, 0, 0, 0, 0, 0,
    50, 50, 50, 50, 50, 50, 50, 50,
    10, 10, 20, 30, 30, 20, 10, 10,
    5, 5, 10, 25, 25, 10, 5, 5,
    0, 0, 0, 20, 20, 0, 0, 0,
    5, -5, -10, 0, 0, -10, -5, 5,
    5, 10, 10, -20, -20, 10, 10, 5,
    0, 0, 0, 0, 0, 0, 0, 0>>

KNIGHT_TABLE ==
  <<-50, -40, -30, -30, -30, -30, -40, -50,
    -40, -20, 0, 0, 0, 0, -20, -40,
    -30, 0, 10, 15, 15, 10, 0, -30,
    -30, 5, 15, 20, 20, 15, 5, -30,
    -30, 0, 15, 20, 20, 15, 0, -30,
    -30, 5, 10, 15, 15, 10, 5, -30,
    -40, -20, 0, 5, 5, 0, -20, -40,
    -50, -40, -30, -30, -30, -30, -40, -50>>

BISHOP_TABLE ==
  <<-20, -10, -10, -10, -10, -10, -10, -20,
    -10, 5, 0, 0, 0, 0, 5, -10,
    -10, 10, 10, 10, 10, 10, 10, -10,
    -10, 0, 10, 10, 10, 10, 0, -10,
    -10, 5, 5, 10, 10, 5, 5, -10,
    -10, 0, 5, 10, 10, 5, 0, -10,
    -10, 0, 0, 0, 0, 0, 0, -10,
    -20, -10, -10, -10, -10, -10, -10, -20>>

ROOK_TABLE ==
  <<0, 0, 5, 10, 10, 5, 0, 0,
    -5, 0, 0, 0, 0, 0, 0, -5,
    -5, 0, 0, 0, 0, 0, 0, -5,
    -5, 0, 0, 0, 0, 0, 0, -5,
    -5, 0, 0, 0, 0, 0, 0, -5,
    -5, 0, 0, 0, 0, 0, 0, -5,
    5, 10, 10, 10, 10, 10, 10, 5,
    0, 0, 0, 0, 0, 0, 0, 0>>

QUEEN_TABLE ==
  <<-20, -10, -10, -5, -5, -10, -10, -20,
    -10, 0, 0, 0, 0, 0, 0, -10,
    -10, 0, 5, 5, 5, 5, 0, -10,
    -5, 0, 5, 5, 5, 5, 0, -5,
    0, 0, 5, 5, 5, 5, 0, -5,
    -10, 5, 5, 5, 5, 5, 0, -10,
    -10, 0, 5, 0, 0, 0, 0, -10,
    -20, -10, -10, -5, -5, -10, -10, -20>>

KING_TABLE_MID ==
  <<20, 30, 10, 0, 0, 10, 30, 20,
    20, 20, 0, 0, 0, 0, 20, 20,
    -10, -20, -20, -20, -20, -20, -20, -10,
    -20, -30, -30, -40, -40, -30, -30, -20,
    -30, -40, -40, -50, -50, -40, -40, -30,
    -30, -40, -40, -50, -50, -40, -40, -30,
    -30, -40, -40, -50, -50, -40, -40, -30,
    -30, -40, -40, -50, -50, -40, -40, -30>>

KING_TABLE_END ==
  <<-50, -40, -30, -20, -20, -30, -40, -50,
    -30, -20, -10, 0, 0, -10, -20, -30,
    -30, -10, 20, 30, 30, 20, -10, -30,
    -30, -10, 30, 40, 40, 30, -10, -30,
    -30, -10, 30, 40, 40, 30, -10, -30,
    -30, -10, 20, 30, 30, 20, -10, -30,
    -30, -30, 0, 0, 0, 0, -30, -30,
    -50, -30, -30, -30, -30, -30, -30, -50>>

TABLE_LOOKUP ==
  [pawn |-> PAWN_TABLE, knight |-> KNIGHT_TABLE, bishop |-> BISHOP_TABLE,
   rook |-> ROOK_TABLE, queen |-> QUEEN_TABLE]

CENTER_SQUARES == {parse_square("d4"), parse_square("e4"), parse_square("d5"), parse_square("e5")}

\* max_random_moves in per cent.
DIFFICULTY_SETTINGS ==
  [explorer |-> [depth |-> 1, max_random_moves |-> 60],
   beginner |-> [depth |-> 1, max_random_moves |-> 40],
   intermediate |-> [depth |-> 2, max_random_moves |-> 10],
   advanced |-> [depth |-> 3, max_random_moves |-> 0]]

\* The keys of DIFFICULTY_SETTINGS in insertion order.
DIFFICULTY_LABELS == <<"explorer", "beginner", "intermediate", "advanced">>

\* MoveScore(move, score)
MoveScore(move, score) == [move |-> move, score |-> score]

(***************************************************************************)
(* router.py: evaluator                                                    *)
(***************************************************************************)
_mirror_square_for_black(sq) == square(square_file(sq), 7 - square_rank(sq))

_piece_square_value(piece, sq, endgame) ==
  IF piece.piece_type \notin DOMAIN TABLE_LOOKUP
    THEN IF piece.piece_type = KING
           THEN (IF endgame THEN KING_TABLE_END ELSE KING_TABLE_MID)[sq + 1]
           ELSE 0
  ELSE IF piece.color = WHITE
    THEN TABLE_LOOKUP[piece.piece_type][sq + 1]
  ELSE -TABLE_LOOKUP[piece.piece_type][_mirror_square_for_black(sq) + 1]

\* len(board.pieces(piece_type, color))
CountOf(board, piece_type, color) == Cardinality(pieces(board, piece_type, color))

\* The locals of _evaluate_board, each as the function computes it.
total_minor_pieces(board) ==
  CountOf(board, BISHOP, WHITE) + CountOf(board, KNIGHT, WHITE)
    + CountOf(board, BISHOP, BLACK) + CountOf(board, KNIGHT, BLACK)

endgame(board) ==
  /\ total_minor_pieces(board) <= 4
  /\ (CountOf(board, QUEEN, WHITE) + CountOf(board, QUEEN, BLACK)) = 0

\* white_material and black_material
MaterialOf(board, color) ==
  Sum(SeqMap(LAMBDA t : PIECE_VALUES[t] * CountOf(board, t, color), PIECE_TYPES))

material_score(board) == MaterialOf(board, WHITE) - MaterialOf(board, BLACK)

positional_score(board) ==
  Sum(SeqMap(LAMBDA sq : _piece_square_value(board.pieces[sq], sq, endgame(board)),
             SelectSeq(DescSquares, LAMBDA sq : sq \in DOMAIN board.pieces)))

center_control(board) ==
  15 * Cardinality({sq \in CENTER_SQUARES : IsOwn(board.pieces, WHITE, sq)})
    - 15 * Cardinality({sq \in CENTER_SQUARES : IsOwn(board.pieces, BLACK, sq)})

mobility_bonus(board) == 5 * Len(generate_legal_moves(board))

\* One side holds a castling right.
CanStillCastle(board, color) ==
  has_kingside_castling_rights(board, color) \/ has_queenside_castling_rights(board, color)

king_safety(board) ==
  (IF CanStillCastle(board, WHITE) THEN 30 ELSE 0)
    - (IF CanStillCastle(board, BLACK) THEN 30 ELSE 0)

bishop_pair_bonus(board) ==
  35 * ((IF CountOf(board, BISHOP, WHITE) >= 2 THEN 1 ELSE 0)
          - (IF CountOf(board, BISHOP, BLACK) >= 2 THEN 1 ELSE 0))

score_from_white_perspective(board) ==
  material_score(board) + positional_score(board) + center_control(board)
    + king_safety(board) + bishop_pair_bonus(board)

\* _evaluate_board with the mate score given from White's point of view.
EvaluateMateForWhite(board) ==
  IF is_checkmate(board)
    THEN (IF board.turn = WHITE THEN -CHECKMATE_SCORE ELSE CHECKMATE_SCORE)
  ELSE IF is_stalemate(board) \/ is_insufficient_material(board) THEN 0
  ELSE (IF board.turn = WHITE THEN 1 ELSE -1) * score_from_white_perspective(board)
         + mobility_bonus(board)

\* _evaluate_board without the test of the material.
EvaluateUnlessStalemate(board) ==
  IF is_checkmate(board) THEN -CHECKMATE_SCORE
  ELSE IF is_stalemate(board) THEN 0
  ELSE (IF board.turn = WHITE THEN 1 ELSE -1) * score_from_white_perspective(board)
         + mobility_bonus(board)

\* _evaluate_board with the mobility bonus inside the White-relative score, so
\* that it is negated with it when Black is to move.
EvaluateMobilitySigned(board) ==
  IF is_checkmate(board) THEN -CHECKMATE_SCORE
  ELSE IF is_stalemate(board) \/ is_insufficient_material(board) THEN 0
  ELSE (IF board.turn = WHITE THEN 1 ELSE -1)
         * (score_from_white_perspective(board) + mobility_bonus(board))

_evaluate_board(board) ==
  IF is_checkmate(board) THEN -CHECKMATE_SCORE
  ELSE IF is_stalemate(board) \/ is_insufficient_material(board) THEN 0
  ELSE (IF board.turn = WHITE THEN 1 ELSE -1) * score_from_white_perspective(board)
         + mobility_bonus(board)

(***************************************************************************)
(* router.py: move orderer and search                                      *)
(***************************************************************************)
_move_order_score(board, move) ==
  (IF is_capture(board, move) /\ move.to_square \in DOMAIN board.pieces
     THEN 10 * PIECE_VALUES[piece_at(board, move.to_square).piece_type] ELSE 0)
    + (IF gives_check(board, move) THEN 80 ELSE 0)
    + (IF is_castling(board, move) THEN 40 ELSE 0)
    + (IF square_name(move.to_square) \in {"d4", "e4", "d5", "e5"} THEN 25 ELSE 0)

MaxOf(S) == CHOOSE x \in S : \A y \in S : y <= x

\* The indices of `key` from the largest key down; equal keys in index order.
RECURSIVE DescendingOrder(_, _)
DescendingOrder(key, keys) ==
  IF keys = {} THEN <<>>
  ELSE SelectSeq([i \in 1..Len(key) |-> i], LAMBDA i : key[i] = MaxOf(keys))
         \o DescendingOrder(key, keys \ {MaxOf(keys)})

\* The elements of `seq` at the indices `order`.
Permuted(seq, order) == [i \in 1..Len(order) |-> seq[order[i]]]

\* sorted(seq, key=..., reverse=True): descending by key, equal keys in their
\* original order (the sort is stable).
SortedDescending(seq, key) ==
  Permuted(seq, DescendingOrder(key, {key[i] : i \in 1..Len(key)}))

\* sorted(moves, key=lambda mv: _move_order_score(board, mv), reverse=True)
SortedByOrderScore(board, moves) ==
  SortedDescending(moves, SeqMap(LAMBDA mv : _move_order_score(board, mv), moves) \o <<>>)

OrderedMoves(board) == SortedByOrderScore(board, generate_legal_moves(board))

\* The iterations lo..hi of a for loop, in order, from the loop state st; an
\* iteration that sets st.break ends the loop (split by halves to keep the
\* evaluation shallow).
RECURSIVE ForLoop(_, _, _, _)
ForLoop(Body(_, _), lo, hi, st) ==
  IF lo > hi THEN st
  ELSE IF lo = hi THEN Body(lo, st)
  ELSE LET left == ForLoop(Body, lo, (lo + hi) \div 2, st)
       IN IF left.break THEN left ELSE ForLoop(Body, ((lo + hi) \div 2) + 1, hi, left)

RECURSIVE _negamax(_, _, _, _)

\* NegamaxUpdate with the cutoff test written against alpha instead of beta.
NegamaxUpdateCutoffOnAlpha(st, beta, popped, score, nodes) ==
  [board |-> popped,
   nodes |-> st.nodes + nodes,
   max_eval |-> Max2(st.max_eval, score),
   alpha |-> Max2(st.alpha, Max2(st.max_eval, score)),
   break |-> Max2(st.max_eval, score) >= st.alpha]

\* The loop state of _negamax after board.pop() and the three if statements.
NegamaxUpdate(st, beta, popped, score, nodes) ==
  [board |-> popped,
   nodes |-> st.nodes + nodes,
   max_eval |-> Max2(st.max_eval, score),
   alpha |-> Max2(st.alpha, Max2(st.max_eval, score)),
   break |-> Max2(st.alpha, Max2(st.max_eval, score)) >= beta]

\* NegamaxReturned with the cutoff taken before board.pop(): the move that
\* caused it stays on the board.
NegamaxReturnedBreakBeforePop(st, beta, sub) ==
  IF Max2(st.alpha, Max2(st.max_eval, -sub.score)) >= beta
    THEN NegamaxUpdate(st, beta, sub.board, -sub.score, sub.nodes)
    ELSE NegamaxUpdate(st, beta, pop(sub.board), -sub.score, sub.nodes)

\* The loop state once the recursive call has returned `sub`.
NegamaxReturned(st, beta, sub) ==
  NegamaxUpdate(st, beta, pop(sub.board), -sub.score, sub.nodes)

\* The for loop of _negamax over ordered_moves.
NegamaxLoop(board, depth, alpha, beta, ordered_moves) ==
  ForLoop(LAMBDA i, st :
            NegamaxReturned(st, beta,
                            _negamax(push(st.board, ordered_moves[i]), depth - 1,
                                     -beta, -st.alpha)),
          1, Len(ordered_moves),
          [board |-> board, nodes |-> 1, max_eval |-> -INF, alpha |-> alpha,
           break |-> FALSE])

\* return max_eval
NegamaxResult(end) == [score |-> end.max_eval, board |-> end.board, nodes |-> end.nodes]

\* Returns the score, the board as the call leaves it and the number of calls
\* of _negamax made (this one included).
_negamax(board, depth, alpha, beta) ==
  IF depth = 0 \/ is_game_over(board)
    THEN [score |-> _evaluate_board(board), board |-> board, nodes |-> 1]
    ELSE NegamaxResult(NegamaxLoop(board, depth, alpha, beta, OrderedMoves(board)))

\* raise HTTPException(status_code, detail)
HTTPException(status_code, detail) ==
  [raised |-> TRUE, status_code |-> status_code, detail |-> detail]

\* A value returned by a function or handler.
Return(value) == [raised |-> FALSE, value |-> value]

\* An exception that is not an HTTPException leaves the handler: the framework
\* answers 500.
Uncaught(exception) == [raised |-> TRUE, status_code |-> 500, detail |-> exception]

\* The loop state of _find_best_move after board.pop() and the two if
\* statements; best_move {} is None.
BestMoveUpdate(st, move, popped, score, nodes) ==
  [board |-> popped,
   nodes |-> st.nodes + nodes,
   best_move |-> IF score > st.best_score \/ st.best_move = {}
                   THEN {move} ELSE st.best_move,
   best_score |-> IF score > st.best_score \/ st.best_move = {}
                    THEN score ELSE st.best_score,
   alpha |-> IF score > st.alpha THEN score ELSE st.alpha,
   break |-> FALSE]

\* _find_best_move taking the score of _negamax without negating it.
BestMoveReturnedUnnegated(st, move, sub) ==
  BestMoveUpdate(st, move, pop(sub.board), sub.score, sub.nodes)

\* The loop state once the call of _negamax has returned `sub`.
BestMoveReturned(st, move, sub) ==
  BestMoveUpdate(st, move, pop(sub.board), -sub.score, sub.nodes)

\* The for loop of _find_best_move over ordered_moves; beta is math.inf.
BestMoveLoop(board, depth, ordered_moves) ==
  ForLoop(LAMBDA i, st :
            BestMoveReturned(st, ordered_moves[i],
                             _negamax(push(st.board, ordered_moves[i]), depth - 1,
                                      -INF, -st.alpha)),
          1, Len(ordered_moves),
          [board |-> board, nodes |-> 0, best_move |-> {}, best_score |-> -INF,
           alpha |-> -INF, break |-> FALSE])

\* The raise or the return that ends _find_best_move.
BestMoveResult(end) ==
  (IF end.best_move = {}
     THEN HTTPException(400, "No legal moves available. The game might be over.")
     ELSE Return(MoveScore(CHOOSE m \in end.best_move : TRUE, end.best_score)))
    @@ [board |-> end.board, nodes |-> end.nodes]

\* Returns MoveScore(best_move, best_score), the board as the call leaves it and
\* the number of calls of _negamax made, or raises when there is no legal move.
_find_best_move(board, depth) ==
  BestMoveResult(BestMoveLoop(board, depth, OrderedMoves(board)))

(***************************************************************************)
(* router.py: move safety checker                                          *)
(***************************************************************************)
\* _is_move_safe without the finally clause: an exception leaves the move on
\* the board.
SafetyWithoutFinally(pushed, move, fault) ==
  [outcome |-> IF fault THEN "raise"
               ELSE IF is_check(pushed) THEN "False"
               ELSE IF ~is_attacked_by(pushed, pushed.turn, move.to_square) THEN "True"
               ELSE "False",
   board |-> IF fault THEN pushed ELSE pop(pushed)]

\* _is_move_safe without the test of board.is_check().
SafetyIgnoringCheck(pushed, move, fault) ==
  [outcome |-> IF fault THEN "raise"
               ELSE IF ~is_attacked_by(pushed, pushed.turn, move.to_square) THEN "True"
               ELSE "False",
   board |-> pop(pushed)]

\* The try block of _is_move_safe on the board the move was pushed on, and the
\* pop of its finally clause.  `fault` is an exception raised inside the try
\* block; the finally clause pops in every case.
SafetyOfPushed(pushed, move, fault) ==
  [outcome |-> IF fault THEN "raise"
               ELSE IF is_check(pushed) THEN "False"
               ELSE IF ~is_attacked_by(pushed, pushed.turn, move.to_square) THEN "True"
               ELSE "False",
   board |-> pop(pushed)]

_is_move_safe_run(board, move, fault) == SafetyOfPushed(push(board, move), move, fault)

_is_move_safe(board, move) == _is_move_safe_run(board, move, FALSE).outcome = "True"

(***************************************************************************)
(* router.py: responses                                                    *)
(***************************************************************************)
\* Move.promotion as chess.piece_symbol writes it; "" is None.
PromotionSymbol(move) ==
  IF move.promotion = "" THEN "" ELSE PROMOTION_LETTER[move.promotion]

\* MoveInfo (the SAN text of the move is left out).
_serialize_move(board, move) ==
  [from_square |-> square_name(move.from_square),
   to_square |-> square_name(move.to_square),
   uci |-> uci(move),
   promotion |-> PromotionSymbol(move),
   is_capture |-> is_capture(board, move),
   gives_check |-> gives_check(board, move),
   is_safe |-> _is_move_safe(board, move)]

\* chess.Board.outcome: {} is None, else the winner ("draw" when there is none).
outcome(board) ==
  IF is_checkmate(board) THEN {IF board.turn = WHITE THEN "black" ELSE "white"}
  ELSE IF is_game_over(board) THEN {"draw"}
  ELSE {}

\* outcome.result()
ResultOf(winner) ==
  IF winner = {} THEN {}
  ELSE IF winner = {"white"} THEN {"1-0"}
  ELSE IF winner = {"black"} THEN {"0-1"}
  ELSE {"1/2-1/2"}

\* The status dictionary for the outcome board.outcome() returned.
StatusWith(board, winner) ==
  [is_check |-> is_check(board),
   is_checkmate |-> is_checkmate(board),
   is_stalemate |-> is_stalemate(board),
   is_insufficient_material |-> is_insufficient_material(board),
   is_seventyfive_moves |-> is_seventyfive_moves(board),
   is_fivefold_repetition |-> is_fivefold_repetition(board),
   winner |-> winner,
   result |-> ResultOf(winner)]

_status_payload(board) == StatusWith(board, outcome(board))

\* random.choice(COACH_TIPS[phase]): the phase whose tips the message is drawn from.
_coach_message(board) ==
  IF board.fullmove_number <= 10 THEN "opening"
  ELSE IF board.fullmove_number <= 25 THEN "middle"
  ELSE "endgame"

_board_from_fen(fen) ==
  Board(fen.pieces, fen.turn, fen.castling, fen.ep_square, fen.halfmove_clock,
        fen.fullmove_number)

(***************************************************************************)
(* Text: a str is a sequence of one-character strings                      *)
(***************************************************************************)
LOWER_CASE ==
  [A |-> "a", B |-> "b", C |-> "c", D |-> "d", E |-> "e", F |-> "f", G |-> "g",
   H |-> "h", I |-> "i", J |-> "j", K |-> "k", L |-> "l", M |-> "m", N |-> "n",
   O |-> "o", P |-> "p", Q |-> "q", R |-> "r", S |-> "s", T |-> "t", U |-> "u",
   V |-> "v", W |-> "w", X |-> "x", Y |-> "y", Z |-> "z"]

WHITESPACE == {" ", "\t", "\n"}

\* str.lower
lower(str) ==
  [i \in 1..Len(str) |->
     IF str[i] \in DOMAIN LOWER_CASE THEN LOWER_CASE[str[i]] ELSE str[i]]

MinOf(S) == CHOOSE x \in S : \A y \in S : x <= y

\* The part of a str between its first and last index in `kept`.
Between(str, kept) ==
  IF kept = {} THEN <<>> ELSE SubSeq(str, MinOf(kept), MaxOf(kept))

\* str.strip
strip(str) == Between(str, {i \in 1..Len(str) : str[i] \notin WHITESPACE})

\* The characters of a str as one string.
RECURSIVE Text(_)
Text(str) == IF str = <<>> THEN "" ELSE Head(str) \o Text(Tail(str))

\* ", ".join(names)
RECURSIVE JoinComma(_)
JoinComma(names) ==
  IF names = <<>> THEN ""
  ELSE IF Len(names) = 1 THEN names[1]
  ELSE names[1] \o ", " \o JoinComma(Tail(names))

(***************************************************************************)
(* router.py: difficulty policy                                            *)
(***************************************************************************)
\* The profile of a canonical label, or the raise that names the label sent.
ProfileOf(label, canonical) ==
  IF canonical \notin DOMAIN DIFFICULTY_SETTINGS
    THEN HTTPException(400, "Unknown difficulty '" \o Text(label)
                              \o "'. Choose from " \o JoinComma(DIFFICULTY_LABELS))
    ELSE Return([label |-> canonical, settings |-> DIFFICULTY_SETTINGS[canonical]])

\* _difficulty_from_label without the strip.
DifficultyFromUntrimmedLabel(label) == ProfileOf(label, Text(lower(label)))

_difficulty_from_label(label) == ProfileOf(label, Text(strip(lower(label))))

\* random.shuffle(moves): the shuffled list starts with any of the moves; the
\* outcomes modelled are rotations of the list.
Shuffle(moves, rotation) ==
  [i \in 1..Len(moves) |-> moves[((i + rotation - 2) % Len(moves)) + 1]] \o <<>>

\* The first index of `key` holding the value `best`.
FirstIndexOf(key, best) ==
  CHOOSE i \in 1..Len(key) : key[i] = best /\ \A j \in 1..(i - 1) : key[j] # best

\* max(seq, key=...): the first element with the largest key.
FirstMax(seq, key) == seq[FirstIndexOf(key, MaxOf({key[i] : i \in 1..Len(key)}))]

\* BeginnerUpdate with the penalty of an unsafe move left out.
BeginnerUpdateWithoutPenalty(st, move, safe, pushed) ==
  [board |-> pop(pushed),
   safe_moves |-> IF safe THEN Append(st.safe_moves, move) ELSE st.safe_moves,
   smart_moves |-> Append(st.smart_moves, <<move, -_evaluate_board(pushed)>>),
   break |-> FALSE]

\* The loop state of _choose_beginner_move after board.pop() and the if
\* statement.
BeginnerUpdate(st, move, safe, pushed) ==
  [board |-> pop(pushed),
   safe_moves |-> IF safe THEN Append(st.safe_moves, move) ELSE st.safe_moves,
   smart_moves |-> Append(st.smart_moves,
                          <<move, -_evaluate_board(pushed) - (IF safe THEN 0 ELSE 150)>>),
   break |-> FALSE]

\* The loop state once _is_move_safe has returned `safety`.
BeginnerChecked(st, move, safety) ==
  BeginnerUpdate(st, move, safety.outcome = "True", push(safety.board, move))

\* The for loop of _choose_beginner_move over the shuffled moves.
BeginnerLoop(board, moves) ==
  ForLoop(LAMBDA i, st :
            BeginnerChecked(st, moves[i], _is_move_safe_run(st.board, moves[i], FALSE)),
          1, Len(moves),
          [board |-> board, safe_moves |-> <<>>, smart_moves |-> <<>>, break |-> FALSE])

\* The safe branch once best_safe has been pushed.
BeginnerPlayed(best_safe, pushed) ==
  Return(MoveScore(best_safe, -_evaluate_board(pushed)))
    @@ [board |-> pop(pushed), draws |-> 1, branch |-> "safe"]

\* The fallback: the highest-scoring move of smart_moves.
BeginnerFallback(end, chosen) ==
  Return(MoveScore(chosen[1], chosen[2]))
    @@ [board |-> end.board, draws |-> IF end.safe_moves # <<>> THEN 1 ELSE 0,
        branch |-> "fallback"]

\* The first safe move in the shuffled order, whatever its priority.
FirstSafe(board, safe_moves) == safe_moves[1]

\* max(safe_moves, key=lambda mv: _move_order_score(board, mv))
BestSafe(board, safe_moves) ==
  FirstMax(safe_moves, SeqMap(LAMBDA mv : _move_order_score(board, mv), safe_moves) \o <<>>)

\* The statements of _choose_beginner_move after the loop.
BeginnerChoice(end, randomness, second) ==
  IF end.safe_moves # <<>> /\ second > randomness
    THEN BeginnerPlayed(BestSafe(end.board, end.safe_moves),
                        push(end.board, BestSafe(end.board, end.safe_moves)))
  ELSE IF end.smart_moves = <<>>
    \* max() of an empty list
    THEN Uncaught("ValueError: max() arg is an empty sequence")
           @@ [board |-> end.board, draws |-> 0, branch |-> "fallback"]
  ELSE BeginnerFallback(end,
                        FirstMax(end.smart_moves,
                                 SeqMap(LAMBDA item : item[2], end.smart_moves) \o <<>>))

\* rand.rotation is the shuffle and rand.second the random.random() draw (per
\* cent) of this call.  Returns the MoveScore, the board as the call leaves it,
\* the number of random.random() draws made and the branch taken.
_choose_beginner_move(board, randomness, rand) ==
  BeginnerChoice(BeginnerLoop(board, Shuffle(generate_legal_moves(board), rand.rotation)),
                 randomness, rand.second)

(***************************************************************************)
(* router.py: request handlers                                             *)
(***************************************************************************)
\* What a handler did besides answering: the move selector it ran, at what
\* depth, and the random.random() values it consumed, in order.
Ran(response, selector, depth, draws) ==
  [response |-> response, selector |-> selector, depth |-> depth, draws |-> draws]

\* The exception a callee raised, leaving the handler.
Propagated(raised) ==
  [raised |-> TRUE, status_code |-> raised.status_code, detail |-> raised.detail]

LABEL_BEGINNER == <<"b", "e", "g", "i", "n", "n", "e", "r">>

LABEL_INTERMEDIATE == <<"i", "n", "t", "e", "r", "m", "e", "d", "i", "a", "t", "e">>

LABEL_ADVANCED == <<"a", "d", "v", "a", "n", "c", "e", "d">>

\* AIMoveRequest: difficulty defaults to "beginner" when the field is absent.
AIMoveRequest(fen, difficulty) ==
  [fen |-> fen,
   difficulty |-> IF difficulty = {} THEN LABEL_BEGINNER
                  ELSE CHOOSE label \in difficulty : TRUE]

\* HintRequest: difficulty is Optional ({} is None).
HintRequest(fen, difficulty) == [fen |-> fen, difficulty |-> difficulty]

LegalMovesRequest(fen, sq) == [fen |-> fen, square |-> sq]

\* The AIMoveResponse.
AiMoveResponse(label, depth, move_info, fen, evaluation, tip, status) ==
  Return([success |-> TRUE,
          difficulty |-> label,
          depth |-> depth,
          move |-> move_info,
          fen |-> fen,
          evaluation |-> evaluation,
          coach_message |-> IF status.is_checkmate THEN "victory" ELSE tip,
          status |-> status])

\* ai_move reporting the evaluation from the point of view of the side that
\* has just moved.
AiMovePushedForMover(label, depth, move_info, pushed) ==
  AiMoveResponse(label, depth, move_info, fen_of(pushed), -_evaluate_board(pushed),
                 _coach_message(pushed), _status_payload(pushed))

\* ai_move from board.push(choice.move) on; pushed is the board after it.
AiMovePushed(label, depth, move_info, pushed) ==
  AiMoveResponse(label, depth, move_info, fen_of(pushed), _evaluate_board(pushed),
                 _coach_message(pushed), _status_payload(pushed))

\* ai_move answering from the board before the chosen move is pushed.
AiMoveChosenWithoutPush(label, depth, choice) ==
  IF choice.raised
    THEN Propagated(choice)
    ELSE AiMovePushed(label, depth, _serialize_move(choice.board, choice.value.move),
                      choice.board)

\* ai_move once the selector has returned or raised.
AiMoveChosen(label, depth, choice) ==
  IF choice.raised
    THEN Propagated(choice)
    ELSE AiMovePushed(label, depth, _serialize_move(choice.board, choice.value.move),
                      push(choice.board, choice.value.move))

\* The selection without the test of the label.
SelectorIgnoresLabel(label, settings, first) ==
  IF first < settings.max_random_moves THEN "beginner" ELSE "search"

\* The selector ai_move runs: the beginner heuristic for the two labels that
\* draw, when the draw falls below the label's probability.
Selector(label, settings, first) ==
  IF label \in {"explorer", "beginner"} /\ first < settings.max_random_moves
    THEN "beginner" ELSE "search"

\* The random.random() values consumed: the handler's own draw and the draw of
\* the beginner heuristic.
DrawsMade(label, selector, choice, rand) ==
  (IF label \in {"explorer", "beginner"} THEN <<rand.first>> ELSE <<>>)
    \o (IF selector = "beginner" /\ choice.draws = 1 THEN <<rand.second>> ELSE <<>>)

\* ai_move from the selection on.
AiMoveSelected(label, settings, selector, choice, rand) ==
  Ran(AiMoveChosen(label, settings.depth, choice), selector, {settings.depth},
      DrawsMade(label, selector, choice, rand))

AiMoveSelect(board, label, settings, selector, rand) ==
  AiMoveSelected(label, settings, selector,
                 IF selector = "beginner"
                   THEN _choose_beginner_move(board, settings.max_random_moves, rand)
                   ELSE _find_best_move(board, settings.depth),
                 rand)

\* ai_move once the label has been looked up.
AiMoveLabelled(board, difficulty, rand) ==
  IF difficulty.raised
    THEN Ran(difficulty, "none", {}, <<>>)
    ELSE AiMoveSelect(board, difficulty.value.label, difficulty.value.settings,
                      Selector(difficulty.value.label, difficulty.value.settings,
                               rand.first),
                      rand)

\* ai_move on the board parsed from the request.
AiMoveOn(board, label, rand) ==
  IF is_game_over(board)
    THEN Ran(HTTPException(400, "Game is already finished. No moves available."),
             "none", {}, <<>>)
    ELSE AiMoveLabelled(board, _difficulty_from_label(label), rand)

\* POST /ai-move.  rand.first is the handler's own random.random() draw.
ai_move(payload, rand) == AiMoveOn(_board_from_fen(payload.fen), payload.difficulty, rand)

\* hint once the search has returned or raised.
HintSuggested(label, suggestion) ==
  IF suggestion.raised
    THEN Propagated(suggestion)
    ELSE Return([success |-> TRUE,
                 hint |-> _serialize_move(suggestion.board, suggestion.value.move),
                 evaluation |-> suggestion.value.score,
                 suggestion |-> IF label \in {"explorer", "beginner"}
                                  THEN "defend" ELSE "plan",
                 status |-> _status_payload(suggestion.board)])

\* hint once the label has been looked up.
HintLabelled(board, label, depth) ==
  Ran(HintSuggested(label, _find_best_move(board, depth)), "search", {depth}, <<>>)

\* The default label with the boundary at move 20 instead of after it.
DifficultyLabelFromMove20(board, difficulty) ==
  IF difficulty # {} /\ difficulty # {<<>>}
    THEN CHOOSE label \in difficulty : TRUE
  ELSE IF board.fullmove_number >= 20 THEN LABEL_ADVANCED
  ELSE LABEL_INTERMEDIATE

\* payload.difficulty or (...): None and "" are both false.
difficulty_label(board, difficulty) ==
  IF difficulty # {} /\ difficulty # {<<>>}
    THEN CHOOSE label \in difficulty : TRUE
  ELSE IF board.fullmove_number > 20 THEN LABEL_ADVANCED
  ELSE LABEL_INTERMEDIATE

HintResolved(board, difficulty) ==
  IF difficulty.raised
    THEN Ran(difficulty, "none", {}, <<>>)
    ELSE HintLabelled(board, difficulty.value.label,
                      Max2(1, difficulty.value.settings.depth))

\* hint on the board parsed from the request.
HintOn(board, difficulty) ==
  IF is_game_over(board)
    THEN Ran(HTTPException(400, "Game is already finished."), "none", {}, <<>>)
    ELSE HintResolved(board, _difficulty_from_label(difficulty_label(board, difficulty)))

\* POST /hint
hint(payload) == HintOn(_board_from_fen(payload.fen), payload.difficulty)

\* The MoveCollection.
LegalMovesResponse(board, serialized) ==
  Return([success |-> TRUE,
          side_to_move |-> IF board.turn = WHITE THEN "white" ELSE "black",
          in_check |-> is_check(board),
          legal_moves |-> serialized,
          message |-> IF serialized # <<>> THEN "moves" ELSE "stuck"])

\* legal_moves listing every legal move, whatever square it starts on.
LegalMovesOfAnySquare(board, sq) ==
  IF sq \notin occupied(board)
    THEN HTTPException(404, "There is no piece on the selected square.")
  ELSE IF piece_at(board, sq).color # board.turn
    THEN HTTPException(400, "It's not that piece's turn to move.")
  ELSE LegalMovesResponse(board,
                          SeqMap(LAMBDA mv : _serialize_move(board, mv),
                                 generate_legal_moves(board)) \o <<>>)

\* legal_moves once the square has been parsed.
LegalMovesFrom(board, sq) ==
  IF sq \notin occupied(board)
    THEN HTTPException(404, "There is no piece on the selected square.")
  ELSE IF piece_at(board, sq).color # board.turn
    THEN HTTPException(400, "It's not that piece's turn to move.")
  ELSE LegalMovesResponse(board,
                          SeqMap(LAMBDA mv : _serialize_move(board, mv),
                                 SelectSeq(generate_legal_moves(board),
                                           LAMBDA mv : mv.from_square = sq)) \o <<>>)

\* legal_moves with the square examined before the game-over check.
LegalMovesSquareFirst(board, sq) ==
  IF parse_square(sq) \notin occupied(board)
    THEN HTTPException(404, "There is no piece on the selected square.")
  ELSE IF is_game_over(board)
    THEN HTTPException(400, "Game is already over. Start a new game to continue playing.")
  ELSE LegalMovesFrom(board, parse_square(sq))

\* legal_moves on the board parsed from the request.
LegalMovesOn(board, sq) ==
  IF is_game_over(board)
    THEN HTTPException(400, "Game is already over. Start a new game to continue playing.")
    ELSE LegalMovesFrom(board, parse_square(sq))

\* POST /legal-moves
legal_moves(payload) ==
  Ran(LegalMovesOn(_board_from_fen(payload.fen), payload.square), "none", {}, <<>>)

\* A ValueError raised by a callee.
ValueError(detail) == [raised |-> TRUE, exception |-> "ValueError", detail |-> detail]

\* The piece type a promotion letter names.
PieceTypeOfLetter(letter) ==
  CHOOSE piece_type \in DOMAIN PROMOTION_LETTER : PROMOTION_LETTER[piece_type] = letter

\* chess.Move.from_uci on a text the request pattern ^[a-h][1-8][a-h][1-8][qrbn]?$
\* admits: a move whose two squares coincide is refused with a ValueError.
from_uci(text) ==
  IF text[1] \o text[2] = text[3] \o text[4]
    THEN ValueError("invalid uci (use 0000 for null moves)")
    ELSE Return(Move(parse_square(text[1] \o text[2]),
                     parse_square(text[3] \o text[4]),
                     IF Len(text) = 5 THEN PieceTypeOfLetter(text[5]) ELSE ""))

\* MoveRequest: move is a str of four or five characters, promotion is Optional
\* ({} is None).
MoveRequest(fen, move, promotion) == [fen |-> fen, move |-> move, promotion |-> promotion]

\* The MoveOutcome built from the board the move has been pushed on.
ApplyMovePushed(move_info, board) ==
  Return([fen |-> fen_of(board),
          turn |-> IF board.turn = WHITE THEN "white" ELSE "black",
          move |-> move_info,
          halfmove_clock |-> board.halfmove_clock,
          fullmove_number |-> board.fullmove_number,
          status |-> _status_payload(board),
          evaluation |-> _evaluate_board(board),
          message |-> _coach_message(board)])

\* apply_move answering with the board the move was never pushed on.
ApplyMoveWithoutPush(board, move) ==
  IF ~is_legal(board, move)
    THEN HTTPException(400, "Illegal move for the current board state.")
    ELSE ApplyMovePushed(_serialize_move(board, move), board)

\* apply_move from the legality test on.
ApplyMoveOn(board, move) ==
  IF ~is_legal(board, move)
    THEN HTTPException(400, "Illegal move for the current board state.")
    ELSE ApplyMovePushed(_serialize_move(board, move), push(board, move))

\* if payload.promotion and not move.promotion: the move is parsed again with
\* the promotion letter appended to its first four characters.
ApplyMovePromotion(payload, move) ==
  IF payload.promotion # {} /\ move.promotion = ""
    THEN from_uci(SubSeq(payload.move, 1, 4)
                    \o <<CHOOSE letter \in payload.promotion : TRUE>>).value
    ELSE move

\* apply_move after the try block around chess.Move.from_uci.
ApplyMoveParsed(payload, parsed) ==
  IF parsed.raised
    THEN HTTPException(400, "Invalid move encoding.")
    ELSE ApplyMoveOn(_board_from_fen(payload.fen),
                     ApplyMovePromotion(payload, parsed.value))

\* POST /apply-move
apply_move(payload) ==
  Ran(ApplyMoveParsed(payload, from_uci(payload.move)), "none", {}, <<>>)

(***************************************************************************)
(* Requests: the positions, labels and random draws the handlers are given *)
(***************************************************************************)
\* The fields of a FEN text: placement as <<square name, piece symbol>> pairs.
Position(placement, turn, castling, ep, halfmove_clock, fullmove_number) ==
  [pieces |-> [sq \in {parse_square(pr[1]) : pr \in placement} |->
                 PIECE_SYMBOLS[(CHOOSE pr \in placement : parse_square(pr[1]) = sq)[2]]],
   turn |-> turn, castling |-> castling, ep_square |-> ep,
   halfmove_clock |-> halfmove_clock, fullmove_number |-> fullmove_number]

\* "8/8/8/4k3/4N3/4K3/8/8 w - - 0 1" (PRACTICE_PUZZLES[0].fen)
PUZZLE_KNIGHT == Position({<<"e5", "k">>, <<"e4", "N">>, <<"e3", "K">>}, WHITE, {}, {},
  0, 1)

\* "6k1/5ppp/8/8/4Q3/5K2/8/6q1 w - - 0 1" (PRACTICE_PUZZLES[1].fen)
PUZZLE_QUEEN == Position({<<"g8", "k">>, <<"f7", "p">>, <<"g7", "p">>, <<"h7", "p">>,
  <<"e4", "Q">>, <<"f3", "K">>, <<"g1", "q">>}, WHITE, {}, {}, 0, 1)

\* "8/8/8/2k5/2P5/4K3/8/8 w - - 0 1" (PRACTICE_PUZZLES[2].fen)
PUZZLE_PAWN == Position({<<"c5", "k">>, <<"c4", "P">>, <<"e3", "K">>}, WHITE, {}, {}, 0,
  1)

\* "8/8/8/2k5/2P5/4K3/8/8 b - - 0 1"
PAWN_BLACK_TO_MOVE == Position({<<"c5", "k">>, <<"c4", "P">>, <<"e3", "K">>}, BLACK, {},
  {}, 0, 1)

\* "8/8/8/2k5/2P5/4K3/8/8 w - - 0 20"
PAWN_MOVE_20 == Position({<<"c5", "k">>, <<"c4", "P">>, <<"e3", "K">>}, WHITE, {}, {},
  0, 20)

\* "8/8/8/2k5/2P5/4K3/8/8 w - - 0 21"
PAWN_MOVE_21 == Position({<<"c5", "k">>, <<"c4", "P">>, <<"e3", "K">>}, WHITE, {}, {},
  0, 21)

\* "8/8/8/2k5/2P5/4K3/8/8 w - - 150 90"
PAWN_SEVENTYFIVE == Position({<<"c5", "k">>, <<"c4", "P">>, <<"e3", "K">>}, WHITE, {},
  {}, 150, 90)

\* "8/8/8/2k5/2P5/4K3/8/8 w - - 148 89"
PAWN_NEAR_SEVENTYFIVE == Position({<<"c5", "k">>, <<"c4", "P">>, <<"e3", "K">>}, WHITE,
  {}, {}, 148, 89)

\* "6k1/8/6K1/8/8/8/8/R7 w - - 0 1"
ROOK_MATE_IN_ONE == Position({<<"g8", "k">>, <<"g6", "K">>, <<"a1", "R">>}, WHITE, {},
  {}, 0, 1)

\* "R5k1/8/6K1/8/8/8/8/8 b - - 1 1"
BLACK_MATED == Position({<<"a8", "R">>, <<"g8", "k">>, <<"g6", "K">>}, BLACK, {}, {}, 1,
  1)

\* "8/8/8/8/8/6k1/8/r5K1 w - - 1 2"
WHITE_MATED == Position({<<"g3", "k">>, <<"a1", "r">>, <<"g1", "K">>}, WHITE, {}, {}, 1,
  2)

\* "6rk/6pp/8/8/8/8/5PPP/3r2K1 w - - 0 30"
WHITE_MATED_RICH == Position({<<"g8", "r">>, <<"h8", "k">>, <<"g7", "p">>, <<"h7",
  "p">>, <<"f2", "P">>, <<"g2", "P">>, <<"h2", "P">>, <<"d1", "r">>, <<"g1", "K">>},
  WHITE, {}, {}, 0, 30)

\* "7k/5Q2/6K1/8/8/8/8/8 b - - 0 1"
BLACK_STALEMATED == Position({<<"h8", "k">>, <<"f7", "Q">>, <<"g6", "K">>}, BLACK, {},
  {}, 0, 1)

\* "4k3/8/8/8/8/8/8/R3K3 w Q - 0 1"
ROOK_CASTLING == Position({<<"e8", "k">>, <<"a1", "R">>, <<"e1", "K">>}, WHITE, {"Q"},
  {}, 0, 1)

\* "4k3/8/2p5/8/8/8/8/3QK3 w - - 0 1"
QUEEN_VS_PAWN == Position({<<"e8", "k">>, <<"c6", "p">>, <<"d1", "Q">>, <<"e1", "K">>},
  WHITE, {}, {}, 0, 1)

\* "4k3/8/8/3pP3/8/8/8/4K3 w - d6 0 2"
EN_PASSANT == Position({<<"e8", "k">>, <<"d5", "p">>, <<"e5", "P">>, <<"e1", "K">>},
  WHITE, {}, {parse_square("d6")}, 0, 2)

\* "3k4/6P1/8/8/8/8/8/4K3 w - - 0 40"
PROMOTION == Position({<<"d8", "k">>, <<"g7", "P">>, <<"e1", "K">>}, WHITE, {}, {}, 0,
  40)

\* "8/8/8/8/8/4k3/8/4K3 w - - 0 1"
BARE_KINGS == Position({<<"e3", "k">>, <<"e1", "K">>}, WHITE, {}, {}, 0, 1)

\* "8/8/8/8/8/6k1/r7/6K1 b - - 0 30"
BLACK_MATES == Position({<<"g3", "k">>, <<"a2", "r">>, <<"g1", "K">>}, BLACK, {}, {}, 0,
  30)

\* "4k3/8/8/8/8/8/4r3/4K3 w - - 0 1"
WHITE_IN_CHECK == Position({<<"e8", "k">>, <<"e2", "r">>, <<"e1", "K">>}, WHITE, {}, {},
  0, 1)

\* "4k3/8/2p5/3p4/8/8/8/3RK3 w - - 0 1"
DEFENDED_PAWN == Position({<<"e8", "k">>, <<"c6", "p">>, <<"d5", "p">>, <<"d1", "R">>,
  <<"e1", "K">>}, WHITE, {}, {}, 0, 1)

\* "4k3/7p/8/8/8/8/P7/4K2R b K - 0 12"
BLACK_PAWN_RACE == Position({<<"e8", "k">>, <<"h7", "p">>, <<"a2", "P">>, <<"e1", "K">>,
  <<"h1", "R">>}, BLACK, {"K"}, {}, 0, 12)

\* "4k3/8/8/8/3n4/8/4P3/4K3 b - - 0 26"
BLACK_KNIGHT == Position({<<"e8", "k">>, <<"d4", "n">>, <<"e2", "P">>, <<"e1", "K">>},
  BLACK, {}, {}, 0, 26)

PRACTICE_PUZZLES == <<PUZZLE_KNIGHT, PUZZLE_QUEEN, PUZZLE_PAWN>>

\* The positions requests carry.
\* "rnbqkbnr/pppppppp/8/8/8/8/PPPPPPPP/RNBQKBNR w KQkq - 0 1" (STARTING_FEN)
STARTING_FEN ==
  Position({<<"a8", "r">>, <<"b8", "n">>, <<"c8", "b">>, <<"d8", "q">>, <<"e8", "k">>,
            <<"f8", "b">>, <<"g8", "n">>, <<"h8", "r">>, <<"a7", "p">>, <<"b7", "p">>,
            <<"c7", "p">>, <<"d7", "p">>, <<"e7", "p">>, <<"f7", "p">>, <<"g7", "p">>,
            <<"h7", "p">>, <<"a2", "P">>, <<"b2", "P">>, <<"c2", "P">>, <<"d2", "P">>,
            <<"e2", "P">>, <<"f2", "P">>, <<"g2", "P">>, <<"h2", "P">>, <<"a1", "R">>,
            <<"b1", "N">>, <<"c1", "B">>, <<"d1", "Q">>, <<"e1", "K">>, <<"f1", "B">>,
            <<"g1", "N">>, <<"h1", "R">>},
           WHITE, {"K", "Q", "k", "q"}, {}, 0, 1)

Positions ==
  {PUZZLE_KNIGHT, PUZZLE_PAWN, PAWN_BLACK_TO_MOVE, PAWN_MOVE_20, PAWN_MOVE_21,
   PAWN_SEVENTYFIVE, PAWN_NEAR_SEVENTYFIVE, ROOK_MATE_IN_ONE, BLACK_MATED, WHITE_MATED,
   WHITE_MATED_RICH, BLACK_STALEMATED, ROOK_CASTLING, QUEEN_VS_PAWN, EN_PASSANT,
   PROMOTION, BARE_KINGS, BLACK_MATES, WHITE_IN_CHECK, DEFENDED_PAWN, BLACK_PAWN_RACE,
   BLACK_KNIGHT}

\* The legal moves of a position, as a set.
Range(seq) == {seq[i] : i \in 1..Len(seq)}

\* The positions searched step by step.
SearchedPositions ==
  {PUZZLE_PAWN, ROOK_MATE_IN_ONE, BLACK_MATES, PAWN_NEAR_SEVENTYFIVE, WHITE_MATED,
   BLACK_STALEMATED, WHITE_IN_CHECK}

LegalMoveSet(fen) == Range(generate_legal_moves(_board_from_fen(fen)))

\* The positions one legal move away from the catalogue.
Successors ==
  UNION {{fen_of(push(_board_from_fen(fen), move)) : move \in LegalMoveSet(fen)} :
           fen \in Positions \cup {PUZZLE_QUEEN}}

\* Difficulty labels as clients send them.
LABEL_EXPLORER == <<"e", "x", "p", "l", "o", "r", "e", "r">>

LABEL_INTERMEDIATE_PADDED ==
  <<" ", "I", "n", "t", "e", "r", "m", "e", "d", "i", "a", "t", "e", "\n">>

LABEL_EXPERT == <<"e", "x", "p", "e", "r", "t">>

\* The difficulty field of a request: absent, or one of the labels.
Difficulties ==
  {{}, {LABEL_EXPLORER}, {LABEL_INTERMEDIATE_PADDED}, {LABEL_ADVANCED}, {LABEL_EXPERT},
   {<<>>}}

\* Values of random.random(), in per cent.
Draws == {0, 40, 60, 99}

\* The deepest search any profile asks for.
MaxDepth == 3

(***************************************************************************)
(* The service: one request is answered at a time; nothing is kept between *)
(* requests                                                                *)
(***************************************************************************)
\* workers holds the locals of each of two threads of the pool answering an
\* /ai-move request; random_state is the state of the generator of the random
\* module, which all threads share: the number of calls it has answered.
\* search is the run of _find_best_move in progress: the board it pushes to
\* and pops from, and the frames of its calls.
VARIABLES pc, request, response, selector, depth, draws, workers, random_state, search

vars == <<pc, request, response, selector, depth, draws, workers, random_state, search>>

None == [op |-> "none"]

\* No search is in progress.
NoSearch == [at |-> "none"]

\* The threads of the pool that run the handlers.
Workers == {1, 2}

\* The random values of a call that has drawn none yet.
NoDraws == [first |-> {}, second |-> {}, rotation |-> {}]

\* The locals of a thread that has no request.
IdleWorker ==
  [at |-> "idle", payload |-> None, board |-> None, difficulty |-> None,
   rand |-> NoDraws, drawn_at |-> <<>>, loop |-> None, choice |-> None, result |-> None]

Init ==
  /\ pc = "idle"
  /\ request = None
  /\ response = None
  /\ selector = "none"
  /\ depth = {}
  /\ draws = <<>>
  /\ workers = [t \in Workers |-> IdleWorker]
  /\ random_state = 0
  /\ search = NoSearch

\* The handler's answer and what it ran are recorded.
Answer(req, ran) ==
  /\ pc' = "done"
  /\ request' = req
  /\ response' = ran.response
  /\ selector' = ran.selector
  /\ depth' = ran.depth
  /\ draws' = ran.draws
  /\ UNCHANGED <<workers, random_state, search>>

\* The lowest and the highest value random.random() returns here.
LowestDraw == CHOOSE d \in Draws : \A e \in Draws : d <= e

HighestDraw == CHOOSE d \in Draws : \A e \in Draws : e <= d

\* The probability the handler's own draw is compared with: none for a label
\* that makes no draw.
DrawingRandomness(difficulty) ==
  IF difficulty.raised \/ difficulty.value.label \notin {"explorer", "beginner"}
    THEN 0 ELSE difficulty.value.settings.max_random_moves

\* The shuffles of n moves tried: the first, a middle and the last rotation.
Rotations(n) == {1, (Max2(n, 1) + 1) \div 2, Max2(n, 1)}

\* What the random source would return to a call of ai_move: the next draw
\* (first), and the shuffle and draw of the beginner heuristic.  Where the code
\* makes no first draw the source holds its lowest value; where the heuristic
\* does not run, one shuffle and draw stand for all.
RandomInputsFor(randomness, n) ==
  {rand \in [first : IF randomness = 0 THEN {LowestDraw} ELSE Draws,
             second : Draws,
             rotation : Rotations(n)] :
     rand.first < randomness \/ (rand.second = HighestDraw /\ rand.rotation = 1)}

RandomInputs(fen, label) ==
  RandomInputsFor(DrawingRandomness(_difficulty_from_label(label)),
                  Len(generate_legal_moves(_board_from_fen(fen))))

AiMove ==
  /\ pc = "idle"
  /\ \E fen \in Positions, difficulty \in Difficulties :
       \E rand \in RandomInputs(fen, AIMoveRequest(fen, difficulty).difficulty) :
         Answer([op |-> "ai_move", fen |-> fen, difficulty |-> difficulty],
                ai_move(AIMoveRequest(fen, difficulty), rand))

Hint ==
  /\ pc = "idle"
  /\ \E fen \in Positions, difficulty \in Difficulties :
       Answer([op |-> "hint", fen |-> fen, difficulty |-> difficulty],
              hint(HintRequest(fen, difficulty)))

\* The squares a client asks about: the occupied ones and two that may be empty.
SquareInputs(fen) == {square_name(sq) : sq \in DOMAIN fen.pieces} \cup {"d4", "h5"}

LegalMoves ==
  /\ pc = "idle"
  /\ \E fen \in Positions \cup {STARTING_FEN} :
       \E sq \in SquareInputs(fen) :
         Answer([op |-> "legal_moves", fen |-> fen, square |-> sq],
                legal_moves(LegalMovesRequest(fen, sq)))

\* _choose_beginner_move called on a position with the randomness of a profile
\* that can reach it.
BeginnerMove ==
  /\ pc = "idle"
  /\ \E fen \in Positions, randomness \in {DIFFICULTY_SETTINGS.explorer.max_random_moves,
                                           DIFFICULTY_SETTINGS.beginner.max_random_moves} :
       \E rand \in [first : {LowestDraw}, second : Draws,
                    rotation : Rotations(Len(generate_legal_moves(_board_from_fen(fen))))] :
         Answer([op |-> "beginner_move", fen |-> fen, randomness |-> randomness,
                 rand |-> rand],
                Ran(_choose_beginner_move(_board_from_fen(fen), randomness, rand),
                    "beginner", {}, <<>>))

\* The text of a move as a client sends it.
UciText(move) ==
  <<FILE_NAMES[square_file(move.from_square) + 1],
    RANK_NAMES[square_rank(move.from_square) + 1],
    FILE_NAMES[square_file(move.to_square) + 1],
    RANK_NAMES[square_rank(move.to_square) + 1]>>
    \o (IF move.promotion = "" THEN <<>> ELSE <<PROMOTION_LETTER[move.promotion]>>)

\* Move texts sent with a position: its legal moves, with and without their
\* promotion letter, moves that stay on their square, a king stepping onto either
\* corner of its rank, and moves no piece of the position can make.
MoveInputs(fen) ==
  {UciText(move) : move \in LegalMoveSet(fen)}
    \cup {SubSeq(UciText(move), 1, 4) : move \in LegalMoveSet(fen)}
    \cup {UciText(Move(sq, sq, "")) : sq \in DOMAIN fen.pieces}
    \cup {UciText(Move(sq, square(file, square_rank(sq)), "")) :
            sq \in {s \in DOMAIN fen.pieces : fen.pieces[s].piece_type = KING},
            file \in {0, 7}}
    \cup {<<"a", "1", "a", "2">>, <<"e", "2", "e", "5">>, <<"e", "7", "e", "8", "q">>}

\* The promotion field of a MoveRequest: absent, or a letter.
PromotionInputs == {{}, {"q"}, {"n"}}

ApplyMove ==
  /\ pc = "idle"
  /\ \E fen \in Positions :
       \E move \in MoveInputs(fen), promotion \in PromotionInputs :
         Answer([op |-> "apply_move", fen |-> fen, move |-> move,
                 promotion |-> promotion],
                apply_move(MoveRequest(fen, move, promotion)))

\* The second of two calls on one board object: the answer of the first call
\* with the answer of the call made on the board it left.
SearchedAgain(first, again) == first @@ [again |-> again]

SearchedTwice(first, d) == SearchedAgain(first, _find_best_move(first.board, d))

\* _find_best_move on a fresh board, and once more on the board it leaves.
BestMove ==
  /\ pc = "idle"
  /\ \E fen \in Positions, d \in 1..MaxDepth :
       Answer([op |-> "best_move", fen |-> fen, depth |-> d],
              Ran(SearchedTwice(_find_best_move(_board_from_fen(fen), d), d),
                  "search", {d}, <<>>))

\* _evaluate_board
\* The castling rights with the colours swapped.
SwappedCastling(castling) ==
  {IF right = "K" THEN "k" ELSE IF right = "Q" THEN "q"
   ELSE IF right = "k" THEN "K" ELSE "Q" : right \in castling}

\* The colour-flipped mirror of a position: every piece on the vertically
\* mirrored square in the other colour, the other side to move, the castling
\* rights and the en-passant square carried over to the other side.
ColourFlipped(fen) ==
  [pieces |-> [sq \in {_mirror_square_for_black(from) : from \in DOMAIN fen.pieces} |->
                 Piece(fen.pieces[_mirror_square_for_black(sq)].piece_type,
                       ~fen.pieces[_mirror_square_for_black(sq)].color)],
   turn |-> ~fen.turn,
   castling |-> SwappedCastling(fen.castling),
   ep_square |-> {_mirror_square_for_black(sq) : sq \in fen.ep_square},
   halfmove_clock |-> fen.halfmove_clock,
   fullmove_number |-> fen.fullmove_number]

\* The positions the evaluator is asked about: the catalogue, the positions one
\* move away from it, and the colour-flipped mirrors of the catalogue.
EvaluatedPositions ==
  Positions \cup Successors \cup {ColourFlipped(fen) : fen \in Positions}

Evaluate ==
  /\ pc = "idle"
  /\ \E fen \in EvaluatedPositions :
       Answer([op |-> "evaluate", fen |-> fen],
              Ran(Return(_evaluate_board(_board_from_fen(fen))), "none", {}, <<>>))

\* The board of a position with `line` (at most one move) played on it.
BoardAfterLine(fen, line) ==
  IF line = <<>> THEN _board_from_fen(fen) ELSE push(_board_from_fen(fen), line[1])

\* The lines played before the safety check: none, or one legal move.
Lines(fen) == {<<>>} \cup {<<move>> : move \in LegalMoveSet(fen)}

\* _is_move_safe on a board that has `line` played on it; fault: an exception is
\* raised after the move has been applied.
IsMoveSafe ==
  /\ pc = "idle"
  /\ \E fen \in Positions \cup {PUZZLE_QUEEN} :
       \E line \in Lines(fen) :
         \E move \in LegalMoveSet(fen_of(BoardAfterLine(fen, line))), fault \in BOOLEAN :
           Answer([op |-> "is_move_safe", fen |-> fen, line |-> line, move |-> move,
                   fault |-> fault],
                  Ran(_is_move_safe_run(BoardAfterLine(fen, line), move, fault),
                      "none", {}, <<>>))

(***************************************************************************)
(* ielts_study_system/router.py: merging the audio segments of a TTS answer *)
(*                                                                         *)
(* bytes are sequences of 0..255; a str (a base64 text, a mime type) is a   *)
(* sequence of one-character strings; None is the empty set and a value    *)
(* that may be None is held in a set of at most one element.               *)
(***************************************************************************)
\* struct.pack("<H", n) and struct.pack("<L", n)
U16(n) == <<n % 256, n \div 256>>

U32(n) == <<n % 256, (n \div 256) % 256, (n \div 65536) % 256, n \div 16777216>>

\* struct.unpack of the little-endian field that starts at byte `at`.
ReadU16(bytes, at) == bytes[at] + 256 * bytes[at + 1]

ReadU32(bytes, at) ==
  bytes[at] + 256 * bytes[at + 1] + 65536 * bytes[at + 2] + 16777216 * bytes[at + 3]

\* b"RIFF", b"WAVE", b"fmt " and b"data"
RIFF == <<82, 73, 70, 70>>

WAVE == <<87, 65, 86, 69>>

FMT == <<102, 109, 116, 32>>

DATA == <<100, 97, 116, 97>>

\* The value of the only element of a set that holds one.
TheOne(S) == CHOOSE x \in S : TRUE

\* b"".join(parts)
RECURSIVE JoinBytes(_)
JoinBytes(parts) ==
  IF parts = <<>> THEN <<>> ELSE Head(parts) \o JoinBytes(Tail(parts))

\* The base64 alphabet, by digit value.
B64_ALPHABET ==
  <<"A", "B", "C", "D", "E", "F", "G", "H", "I", "J", "K", "L", "M", "N", "O", "P",
    "Q", "R", "S", "T", "U", "V", "W", "X", "Y", "Z", "a", "b", "c", "d", "e", "f",
    "g", "h", "i", "j", "k", "l", "m", "n", "o", "p", "q", "r", "s", "t", "u", "v",
    "w", "x", "y", "z", "0", "1", "2", "3", "4", "5", "6", "7", "8", "9", "+", "/">>

B64Char(digit) == B64_ALPHABET[digit + 1]

B64Digit(char) == (CHOOSE i \in DOMAIN B64_ALPHABET : B64_ALPHABET[i] = char) - 1

IsB64Char(char) == \E i \in DOMAIN B64_ALPHABET : B64_ALPHABET[i] = char

\* base64.b64encode(bytes).decode("utf-8"): three bytes make four characters,
\* the last group is padded with "=".
RECURSIVE b64encode(_)
b64encode(bytes) ==
  IF Len(bytes) = 0 THEN <<>>
  ELSE IF Len(bytes) = 1
    THEN <<B64Char(bytes[1] \div 4), B64Char((bytes[1] % 4) * 16), "=", "=">>
  ELSE IF Len(bytes) = 2
    THEN <<B64Char(bytes[1] \div 4),
           B64Char((bytes[1] % 4) * 16 + bytes[2] \div 16),
           B64Char((bytes[2] % 16) * 4), "=">>
  ELSE <<B64Char(bytes[1] \div 4),
         B64Char((bytes[1] % 4) * 16 + bytes[2] \div 16),
         B64Char((bytes[2] % 16) * 4 + bytes[3] \div 64),
         B64Char(bytes[3] % 64)>> \o b64encode(SubSeq(bytes, 4, Len(bytes)))

\* The bytes that a run of base64 digits encodes.
RECURSIVE B64Bytes(_)
B64Bytes(digits) ==
  IF Len(digits) < 2 THEN <<>>
  ELSE IF Len(digits) = 2 THEN <<digits[1] * 4 + digits[2] \div 16>>
  ELSE IF Len(digits) = 3
    THEN <<digits[1] * 4 + digits[2] \div 16, (digits[2] % 16) * 16 + digits[3] \div 4>>
  ELSE <<digits[1] * 4 + digits[2] \div 16,
         (digits[2] % 16) * 16 + digits[3] \div 4,
         (digits[3] % 4) * 64 + digits[4]>> \o B64Bytes(SubSeq(digits, 5, Len(digits)))

\* The text up to its first "=", and the number of "=" in the text.
BeforePadding(text) ==
  IF \E i \in 1..Len(text) : text[i] = "="
    THEN SubSeq(text, 1, MinOf({i \in 1..Len(text) : text[i] = "="}) - 1)
    ELSE text

Padding(text) == Cardinality({i \in 1..Len(text) : text[i] = "="})

\* The digit values of the base64 characters of a text; the decoder skips
\* every other character.
B64Digits(text) ==
  [i \in 1..Len(SelectSeq(text, IsB64Char)) |-> B64Digit(SelectSeq(text, IsB64Char)[i])]

B64Decoded(digits, padding) ==
  IF Len(digits) % 4 = 1 \/ (Len(digits) % 4 # 0 /\ padding < 4 - (Len(digits) % 4))
    THEN ValueError("binascii.Error")
    ELSE Return(B64Bytes(digits))

\* base64.b64decode(text): raises binascii.Error (a ValueError) when the
\* digits do not make whole bytes or the padding is short.
b64decode(text) == B64Decoded(B64Digits(BeforePadding(text)), Padding(text))

\* wave.open(buffer, "wb") ... close(): the 44-byte header Wave_write writes,
\* with the lengths it patches in on close, then the frames written.
WaveWritten(nchannels, sampwidth, framerate, data) ==
  RIFF \o U32(36 + Len(data)) \o WAVE
    \o FMT \o U32(16) \o U16(1) \o U16(nchannels) \o U32(framerate)
    \o U32(nchannels * framerate * sampwidth) \o U16(nchannels * sampwidth)
    \o U16(sampwidth * 8)
    \o DATA \o U32(Len(data)) \o data

\* Wave_read._read_fmt_chunk on the chunk whose header starts at `at`: None
\* (the empty set) where it raises wave.Error or EOFError.
FmtChunk(bytes, at) ==
  IF ReadU32(bytes, at + 4) < 16 \/ Len(bytes) < at + 23 THEN {}
  ELSE IF ReadU16(bytes, at + 8) # 1 THEN {}
  ELSE IF ReadU16(bytes, at + 10) = 0 THEN {}
  ELSE IF (ReadU16(bytes, at + 22) + 7) \div 8 = 0 THEN {}
  ELSE {[nchannels |-> ReadU16(bytes, at + 10),
         framerate |-> ReadU32(bytes, at + 12),
         sampwidth |-> (ReadU16(bytes, at + 22) + 7) \div 8,
         comptype |-> "NONE"]}

\* The end of the chunk that starts at `at`: its size rounded up to even.
ChunkEnd(bytes, at) ==
  at + 8 + ReadU32(bytes, at + 4) + (ReadU32(bytes, at + 4) % 2)

\* The parameters read and Wave_read.readframes(nframes) on the data chunk
\* that starts at `at`: whole frames only, and no more than the file holds.
DataChunk(bytes, at, fmt, framesize) ==
  [nchannels |-> fmt.nchannels,
   sampwidth |-> fmt.sampwidth,
   framerate |-> fmt.framerate,
   comptype |-> fmt.comptype,
   nframes |-> ReadU32(bytes, at + 4) \div framesize,
   frames |-> SubSeq(bytes, at + 8,
                     MinOf({Len(bytes),
                            at + 7 + (ReadU32(bytes, at + 4) \div framesize) * framesize}))]

\* Wave_read.initfp after the RIFF header: the chunks in order; the fmt chunk
\* must come before the data chunk, other chunks are skipped; the end of the
\* file before a data chunk is wave.Error.
RECURSIVE WaveChunks(_, _, _)
WaveChunks(bytes, at, fmt) ==
  IF Len(bytes) < at + 7 THEN {}
  ELSE IF SubSeq(bytes, at, at + 3) = FMT
    THEN IF FmtChunk(bytes, at) = {} THEN {}
         ELSE WaveChunks(bytes, ChunkEnd(bytes, at), FmtChunk(bytes, at))
  ELSE IF SubSeq(bytes, at, at + 3) = DATA
    THEN IF fmt = {} THEN {}
         ELSE {DataChunk(bytes, at, TheOne(fmt),
                         TheOne(fmt).nchannels * TheOne(fmt).sampwidth)}
  ELSE WaveChunks(bytes, ChunkEnd(bytes, at), fmt)

\* wave.open(io.BytesIO(bytes), "rb"), getparams() and readframes(): None
\* where the module raises wave.Error or EOFError.
WaveRead(bytes) ==
  IF Len(bytes) < 12 THEN {}
  ELSE IF SubSeq(bytes, 1, 4) # RIFF \/ SubSeq(bytes, 9, 12) # WAVE THEN {}
  ELSE WaveChunks(bytes, 13, {})

\* _extract_wav_frames returns (nchannels, sampwidth, framerate, frames), or
\* None for a compressed or unreadable file.
ExtractedFrames(read) ==
  IF read = {} THEN {}
  ELSE IF TheOne(read).comptype \notin {"NONE", "not compressed"} THEN {}
  ELSE {<<TheOne(read).nchannels, TheOne(read).sampwidth, TheOne(read).framerate,
          TheOne(read).frames>>}

_extract_wav_frames(wav_bytes) == ExtractedFrames(WaveRead(wav_bytes))

_PCM_MIME_HINTS ==
  {"audio/pcm", "audio/x-raw", "audio/raw", "audio/basic", "audio/l16", "linear16"}

_WAV_MIME_ALIASES == {"audio/wave", "audio/x-wav"}

_MP3_MIME_ALIASES == {"audio/mp3"}

\* value.split(";", 1)[0]
BeforeSemicolon(str) ==
  IF \E i \in 1..Len(str) : str[i] = ";"
    THEN SubSeq(str, 1, MinOf({i \in 1..Len(str) : str[i] = ";"}) - 1)
    ELSE str

\* The canonical name of the lower-cased base type of a hint.
CanonicalMime(base) ==
  IF base = "audio/wav" \/ base \in _WAV_MIME_ALIASES THEN "audio/wav"
  ELSE IF base = "audio/mpeg" \/ base \in _MP3_MIME_ALIASES THEN "audio/mpeg"
  ELSE IF base \in _PCM_MIME_HINTS THEN "audio/pcm"
  ELSE base

\* _normalise_mime_hint: None for no hint or a blank one.
_normalise_mime_hint(mime_hint) ==
  IF mime_hint = {} \/ mime_hint = {<<>>} THEN {}
  ELSE IF strip(TheOne(mime_hint)) = <<>> THEN {}
  ELSE {CanonicalMime(Text(lower(strip(BeforeSemicolon(strip(TheOne(mime_hint)))))))}

\* _ensure_base64_text of a str: the str itself.
_ensure_base64_text(value) == value

\* a or b, of two values that may be None or the empty str.
OrElse(a, b) == IF a # {} /\ a # {""} THEN a ELSE b

\* The last lines of _normalise_audio_payload (331-338), for a hint that names
\* no PCM format: the text as it is, under the hint or "audio/wav".
NormalisedPayload(base64_text, resolved_hint, normalised_requested) ==
  IF OrElse(resolved_hint, {}) # {}
    THEN <<{base64_text}, resolved_hint>>
    ELSE <<{base64_text}, OrElse(normalised_requested, {"audio/wav"})>>

\* _normalise_audio_payload: the hint of the data comes before the requested
\* type.  The senders of the model name no PCM format, so the conversion of
\* raw PCM to WAV (lines 316-329) is not taken.
_normalise_audio_payload(raw_data, raw_mime_type, requested_mime_type, metadata) ==
  NormalisedPayload(_ensure_base64_text(raw_data),
                    OrElse(_normalise_mime_hint(raw_mime_type),
                           _normalise_mime_hint(requested_mime_type)),
                    _normalise_mime_hint(requested_mime_type))

\* The locals of _merge_audio_segments before its loop.
MergeStart ==
  [combined |-> <<>>, resolved_hint |-> {}, resolved_metadata |-> {},
   fallback_segment |-> {}, wav_params |-> {}, wav_frames |-> <<>>,
   saw_wav_segment |-> FALSE, wav_merge_failed |-> FALSE]

\* Lines 360-365: the first segment with data is the fallback; the first
\* non-empty hint and the first metadata dict are kept.
MergeNoted(st, base64_text, raw_mime, metadata) ==
  [st EXCEPT
     !.fallback_segment = IF @ = {} THEN {<<base64_text, raw_mime, metadata>>} ELSE @,
     !.resolved_hint = IF @ = {} /\ raw_mime # {} /\ raw_mime # {<<>>} THEN raw_mime ELSE @,
     !.resolved_metadata = IF @ = {} /\ metadata # {} THEN metadata ELSE @]

\* Lines 375-379: the hint says WAV, or the bytes start as a RIFF/WAVE file.
IsWavPayload(decoded, normalised_mime) ==
  \/ normalised_mime = {"audio/wav"}
  \/ /\ Len(decoded) >= 12
     /\ SubSeq(decoded, 1, 4) = RIFF
     /\ SubSeq(decoded, 9, 12) = WAVE

\* The segment could not be merged as WAV: its bytes go to the fallback buffer.
MergeWavFailed(st, decoded) ==
  [st EXCEPT !.saw_wav_segment = TRUE, !.wav_merge_failed = TRUE,
             !.combined = @ \o decoded]

\* wav_frames.insert(0, frames)
MergeFramesPrepended(st, frames) ==
  [st EXCEPT !.saw_wav_segment = TRUE, !.wav_frames = <<frames>> \o @]

\* wav_frames.append(frames)
MergeFramesAppended(st, frames) ==
  [st EXCEPT !.saw_wav_segment = TRUE, !.wav_frames = Append(@, frames)]

\* Lines 380-397: the frames of a WAV segment are kept when its parameters
\* are those of the first WAV segment.
MergeWav(st, decoded, extracted) ==
  IF extracted = {} THEN MergeWavFailed(st, decoded)
  ELSE IF st.wav_params = {}
    THEN MergeFramesAppended(
           [st EXCEPT !.wav_params = {SubSeq(TheOne(extracted), 1, 3)}],
           TheOne(extracted)[4])
  ELSE IF SubSeq(TheOne(extracted), 1, 3) # TheOne(st.wav_params)
    THEN MergeWavFailed(st, decoded)
  ELSE MergeFramesAppended(st, TheOne(extracted)[4])

\* Lines 373-399 for the decoded bytes of a segment.
MergeBytes(st, decoded, normalised_mime) ==
  IF ~st.wav_merge_failed /\ IsWavPayload(decoded, normalised_mime)
    THEN MergeWav(st, decoded, _extract_wav_frames(decoded))
    ELSE [st EXCEPT !.combined = @ \o decoded]

\* Lines 366-372: a text that is not base64 is left out.
MergeDecoded(st, decoded, raw_mime) ==
  IF decoded.raised THEN st
  ELSE MergeBytes(st, decoded.value, _normalise_mime_hint(raw_mime))

\* One iteration of the loop of _merge_audio_segments.
MergeSegment(st, raw_data, raw_mime, metadata) ==
  IF raw_data = {} THEN st
  ELSE IF _ensure_base64_text(TheOne(raw_data)) = <<>> THEN st
  ELSE MergeDecoded(MergeNoted(st, _ensure_base64_text(TheOne(raw_data)), raw_mime, metadata),
                    b64decode(_ensure_base64_text(TheOne(raw_data))), raw_mime)

RECURSIVE MergeLoop(_, _)
MergeLoop(st, segments) ==
  IF segments = <<>> THEN st
  ELSE MergeLoop(MergeSegment(st, segments[1][1], segments[1][2], segments[1][3]),
                 Tail(segments))

\* max(1, value)
AtLeastOne(value) == IF value < 1 THEN 1 ELSE value

\* Lines 403-413: Wave_write refuses a sample width outside 1..4 with
\* wave.Error, which nothing catches; otherwise every non-empty run of frames
\* is written in the order kept.
MergedWav(nchannels, sampwidth, framerate, wav_frames) ==
  IF sampwidth > 4 THEN Uncaught("wave.Error")
  ELSE Return(<<{b64encode(WaveWritten(nchannels, sampwidth, framerate,
                                       JoinBytes(wav_frames)))},
                {"audio/wav"}>>)

\* Lines 401-446: what _merge_audio_segments returns after its loop.
MergeReturned(st, requested_mime_type) ==
  IF st.saw_wav_segment /\ ~st.wav_merge_failed /\ st.wav_params # {} /\ st.wav_frames # <<>>
    THEN MergedWav(AtLeastOne(TheOne(st.wav_params)[1]),
                   AtLeastOne(TheOne(st.wav_params)[2]),
                   AtLeastOne(TheOne(st.wav_params)[3]),
                   st.wav_frames)
  ELSE IF st.combined # <<>>
    THEN IF st.saw_wav_segment /\ st.wav_merge_failed /\ st.fallback_segment # {}
           THEN Return(_normalise_audio_payload(TheOne(st.fallback_segment)[1],
                                                TheOne(st.fallback_segment)[2],
                                                requested_mime_type,
                                                TheOne(st.fallback_segment)[3]))
           ELSE Return(_normalise_audio_payload(b64encode(st.combined), st.resolved_hint,
                                                requested_mime_type, st.resolved_metadata))
  ELSE IF st.fallback_segment # {}
    THEN Return(_normalise_audio_payload(TheOne(st.fallback_segment)[1],
                                         TheOne(st.fallback_segment)[2],
                                         requested_mime_type,
                                         TheOne(st.fallback_segment)[3]))
  ELSE Return(<<{}, {}>>)

\* _merge_audio_segments(segments, requested_mime_type): a segment is
\* (raw_data, raw_mime, metadata); the answer is (data, mime).
_merge_audio_segments(segments, requested_mime_type) ==
  MergeReturned(MergeLoop(MergeStart, segments), requested_mime_type)

\* The mime types sent with a segment or requested.
MIME_WAV == <<"a", "u", "d", "i", "o", "/", "w", "a", "v">>

MIME_X_WAV ==
  <<" ", "A", "u", "d", "i", "o", "/", "X", "-", "W", "a", "v", ";", " ", "r", "a", "t",
    "e", "=", "8", "0", "0", "0">>

MIME_MPEG == <<"a", "u", "d", "i", "o", "/", "m", "p", "e", "g">>

\* (nchannels, sampwidth, framerate) of the WAV files sent: the parameters of
\* the test's _make_wav, 8-bit mono and 8-bit stereo at another rate.
WavParameters == {<<1, 2, 8000>>, <<1, 1, 8000>>, <<2, 1, 16000>>}

\* The PCM data of the files sent: none, one or two 16-bit frames, and three
\* bytes, which end in half a 16-bit frame.
PcmData == {<<>>, <<1, 2>>, <<3, 4, 3, 4>>, <<5, 6, 7>>}

\* _make_wav of test_tts_merge.py, base64-encoded.
_make_wav(frames, channels, sample_width, frame_rate) ==
  b64encode(WaveWritten(channels, sample_width, frame_rate, frames))

\* WAV segments: with the hint "audio/wav" or with none.
WavSegments ==
  {<<{_make_wav(frames, p[1], p[2], p[3])}, raw_mime, {}>> :
     frames \in PcmData, p \in WavParameters, raw_mime \in {{}, {MIME_WAV}}}

\* Other segments: no data, an empty text, a text that is not base64, MP3
\* bytes, bytes that are no WAV file under a WAV hint, and a WAV file under an
\* alias of the WAV type.
OtherSegments ==
  {<<{}, {MIME_WAV}, {}>>,
   <<{<<>>}, {MIME_WAV}, {}>>,
   <<{<<"Q">>}, {}, {}>>,
   <<{b64encode(<<255, 251, 144>>)}, {MIME_MPEG}, {}>>,
   <<{b64encode(<<1, 2, 3, 4>>)}, {MIME_WAV}, {}>>,
   <<{_make_wav(<<1, 2>>, 1, 2, 8000)}, {MIME_X_WAV}, {}>>}

\* The segment lists merged: none, one or two segments.
SegmentLists ==
  {<<>>} \cup {<<a>> : a \in WavSegments \cup OtherSegments}
         \cup {<<a, b>> : a \in WavSegments \cup OtherSegments, b \in WavSegments}
         \cup {<<a, b>> : a \in WavSegments, b \in OtherSegments}

\* _merge_audio_segments is called on the segments of a TTS answer.
MergeAudioSegments ==
  /\ pc = "idle"
  /\ \E segments \in SegmentLists, requested_mime_type \in {{}, {MIME_WAV}} :
       Answer([op |-> "merge_audio_segments", segments |-> segments,
               requested_mime_type |-> requested_mime_type],
              Ran(_merge_audio_segments(segments, requested_mime_type), "none", {}, <<>>))

\* _move_order_score is called on a legal move of a position, as the sorts of
\* _negamax and _find_best_move and the max of _choose_beginner_move call it.
MoveOrderScore ==
  /\ pc = "idle"
  /\ \E fen \in Positions \cup {PUZZLE_QUEEN} :
       \E move \in LegalMoveSet(fen) :
         Answer([op |-> "move_order_score", fen |-> fen, move |-> move],
                Ran(Return(_move_order_score(_board_from_fen(fen), move)), "none", {}, <<>>))

(***************************************************************************)
(* _find_best_move and _negamax, one push, call, return or pop at a time   *)
(***************************************************************************)
\* A frame is one call.  `at` is where the call stands: "loop" before
\* board.push(move) of move number i, "pushed" after it, "called" while the
\* recursive call runs, "returned" once it is back and before board.pop(),
\* "return" when the call is about to return `value`.  st holds the locals the
\* loop updates, sub what the recursive call returned; game_over tells the
\* leaf the rules engine ended.
Frame(fn, d, alpha, beta, at, ordered_moves, st, game_over, value) ==
  [fn |-> fn, depth |-> d, alpha |-> alpha, beta |-> beta, at |-> at,
   ordered_moves |-> ordered_moves, i |-> 1, st |-> st, sub |-> {},
   game_over |-> game_over, value |-> value]

\* The locals of _negamax before its loop.
NegamaxLocals(board, alpha) ==
  [board |-> board, nodes |-> 1, max_eval |-> -INF, alpha |-> alpha, break |-> FALSE]

\* _negamax entered without the test of the depth.
NegamaxEnteredUnlessGameOver(board, d, alpha, beta) ==
  IF is_game_over(board)
    THEN Frame("_negamax", d, alpha, beta, "return", <<>>, NegamaxLocals(board, alpha),
               is_game_over(board), {_evaluate_board(board)})
    ELSE Frame("_negamax", d, alpha, beta, "loop", OrderedMoves(board),
               NegamaxLocals(board, alpha), FALSE, {})

\* _negamax(board, depth, alpha, beta) entered: `return _evaluate_board(board)`
\* when depth == 0 or board.is_game_over(), else the sorted moves.
NegamaxEntered(board, d, alpha, beta) ==
  IF d = 0 \/ is_game_over(board)
    THEN Frame("_negamax", d, alpha, beta, "return", <<>>, NegamaxLocals(board, alpha),
               is_game_over(board), {_evaluate_board(board)})
    ELSE Frame("_negamax", d, alpha, beta, "loop", OrderedMoves(board),
               NegamaxLocals(board, alpha), FALSE, {})

\* The locals of _find_best_move before its loop.
BestMoveLocals(board) ==
  [board |-> board, nodes |-> 0, best_move |-> {}, best_score |-> -INF,
   alpha |-> -INF, break |-> FALSE]

\* _find_best_move(board, depth) entered; with no move to try the loop is
\* over at once.
BestMoveEntered(board, d, ordered_moves) ==
  Frame("_find_best_move", d, -INF, INF,
        IF ordered_moves = <<>> THEN "return" ELSE "loop",
        ordered_moves, BestMoveLocals(board), FALSE, {})

\* The running call and the search with the running call replaced.
Top(run) == run.frames[Len(run.frames)]

WithTop(run, frame) == [run EXCEPT !.frames[Len(run.frames)] = frame]

\* The move the running call is at.
MoveAt(frame) == frame.ordered_moves[frame.i]

\* A search of `fen` at depth d starts: the depth is that of a difficulty
\* profile.
StartSearch ==
  /\ pc = "idle"
  /\ search = NoSearch
  /\ \E fen \in SearchedPositions, d \in {DIFFICULTY_SETTINGS[label].depth :
                                           label \in DOMAIN DIFFICULTY_SETTINGS} :
       /\ request' = [op |-> "search", fen |-> fen, depth |-> d]
       /\ search' = [board |-> _board_from_fen(fen),
                     frames |-> <<BestMoveEntered(_board_from_fen(fen), d,
                                                  OrderedMoves(_board_from_fen(fen)))>>,
                     cutoffs |-> 0]
  /\ pc' = "searching"
  /\ UNCHANGED <<response, selector, depth, draws, workers, random_state>>

\* board.push(move)
PushMove ==
  /\ pc = "searching"
  /\ Top(search).at = "loop"
  /\ search' = [WithTop(search, [Top(search) EXCEPT !.at = "pushed"])
                  EXCEPT !.board = push(search.board, MoveAt(Top(search)))]
  /\ UNCHANGED <<pc, request, response, selector, depth, draws, workers, random_state>>

\* _negamax(board, depth - 1, -beta, -alpha) is called.
CallNegamax ==
  /\ pc = "searching"
  /\ Top(search).at = "pushed"
  /\ search' = [search EXCEPT
                  !.frames = Append(WithTop(search, [Top(search) EXCEPT !.at = "called"]).frames,
                                    NegamaxEntered(search.board, Top(search).depth - 1,
                                                   -Top(search).beta,
                                                   -Top(search).st.alpha))]
  /\ UNCHANGED <<pc, request, response, selector, depth, draws, workers, random_state>>

\* The caller's frame once the call above it has returned.
Resumed(caller, callee) ==
  [caller EXCEPT !.at = "returned",
                 !.sub = {[score |-> TheOne(callee.value),
                           nodes |-> IF callee.ordered_moves = <<>> THEN 1
                                     ELSE callee.st.nodes]}]

\* _negamax returns its value to the call that made it.
ReturnFromNegamax ==
  /\ pc = "searching"
  /\ Top(search).fn = "_negamax"
  /\ Top(search).at = "return"
  /\ search' = [search EXCEPT
                  !.frames = [SubSeq(search.frames, 1, Len(search.frames) - 1)
                                EXCEPT ![Len(search.frames) - 1] =
                                  Resumed(search.frames[Len(search.frames) - 1],
                                          Top(search))]]
  /\ UNCHANGED <<pc, request, response, selector, depth, draws, workers, random_state>>

\* The locals after board.pop() and the if statements that follow it.
LocalsAfterPop(frame, board) ==
  IF frame.fn = "_negamax"
    THEN NegamaxReturned(frame.st, frame.beta,
                         [board |-> board, score |-> TheOne(frame.sub).score,
                          nodes |-> TheOne(frame.sub).nodes])
    ELSE BestMoveReturned(frame.st, MoveAt(frame),
                          [board |-> board, score |-> TheOne(frame.sub).score,
                           nodes |-> TheOne(frame.sub).nodes])

\* The frame with the locals `st` after the pop: the loop goes on with the
\* next move, or ends on `break` or after the last move.
AfterPop(frame, st) ==
  [frame EXCEPT !.st = st,
                !.sub = {},
                !.i = @ + 1,
                !.at = IF st.break \/ frame.i = Len(frame.ordered_moves)
                         THEN "return" ELSE "loop",
                !.value = IF frame.fn = "_negamax"
                               /\ (st.break \/ frame.i = Len(frame.ordered_moves))
                            THEN {st.max_eval} ELSE {}]

\* The search once the running call has popped its move.
Popped(run, frame) ==
  [WithTop(run, frame) EXCEPT !.board = frame.st.board,
                              !.cutoffs = IF frame.st.break THEN @ + 1 ELSE @]

\* board.pop() and the updates of the loop body.
PopMove ==
  /\ pc = "searching"
  /\ Top(search).at = "returned"
  /\ search' = Popped(search,
                      AfterPop(Top(search), LocalsAfterPop(Top(search), search.board)))
  /\ UNCHANGED <<pc, request, response, selector, depth, draws, workers, random_state>>

\* _find_best_move returns MoveScore(best_move, best_score) or raises.
FinishSearch ==
  /\ pc = "searching"
  /\ Top(search).fn = "_find_best_move"
  /\ Top(search).at = "return"
  /\ pc' = "done"
  /\ response' = BestMoveResult([Top(search).st EXCEPT !.board = search.board])
                   @@ [cutoffs |-> search.cutoffs]
  /\ selector' = "search"
  /\ depth' = {request.depth}
  /\ search' = NoSearch
  /\ UNCHANGED <<request, draws, workers, random_state>>

\* The response is sent and the handler's objects are dropped.
Deliver ==
  /\ pc = "done"
  /\ pc' = "idle"
  /\ request' = None
  /\ response' = None
  /\ selector' = "none"
  /\ depth' = {}
  /\ draws' = <<>>
  /\ UNCHANGED <<workers, random_state, search>>

(***************************************************************************)
(* Two /ai-move requests answered by two threads at once                   *)
(***************************************************************************)
\* The positions sent to each thread: the two requests are on distinct positions.
ConcurrentPositions == <<{PUZZLE_PAWN, BLACK_STALEMATED}, {BLACK_KNIGHT}>>

ConcurrentDifficulties == {{LABEL_EXPLORER}, {LABEL_INTERMEDIATE_PADDED}, {LABEL_EXPERT}}

\* The values the shared generator hands out to random.random() here.
ConcurrentDraws == {LowestDraw, HighestDraw}

\* board = _board_from_fen(payload.fen)
Received(payload) ==
  [IdleWorker EXCEPT !.at = "game_over",
                     !.payload = payload,
                     !.board = _board_from_fen(payload.fen)]

\* The handler returns or raises.
Finished(worker, result) == [worker EXCEPT !.at = "done", !.result = result]

\* if board.is_game_over(): raise
GameOverChecked(worker) ==
  IF is_game_over(worker.board)
    THEN Finished(worker, HTTPException(400, "Game is already finished. No moves available."))
    ELSE [worker EXCEPT !.at = "label"]

\* label, settings = _difficulty_from_label(payload.difficulty); random.random()
\* is called next only for the two labels that draw.
LookedUp(worker, difficulty) ==
  IF difficulty.raised
    THEN Finished(worker, difficulty)
    ELSE [worker EXCEPT !.difficulty = difficulty.value,
                        !.at = IF difficulty.value.label \in {"explorer", "beginner"}
                                 THEN "draw" ELSE "search"]

\* The lookup keeping its result in one place for the whole process: every
\* thread past its own lookup sees the latest result.
LookUpProcessWide(ws, t) ==
  [u \in Workers |->
     IF u = t
       THEN LookedUp(ws[t], _difficulty_from_label(ws[t].payload.difficulty))
     ELSE IF /\ ws[u].at \in {"draw", "search", "shuffle", "second", "choose", "respond"}
             /\ ~_difficulty_from_label(ws[t].payload.difficulty).raised
       THEN [ws[u] EXCEPT !.difficulty =
                            _difficulty_from_label(ws[t].payload.difficulty).value]
     ELSE ws[u]]

\* The lookup of thread t: label and settings are locals of its call.
LookUp(ws, t) ==
  [ws EXCEPT ![t] = LookedUp(ws[t], _difficulty_from_label(ws[t].payload.difficulty))]

\* random.random() < randomness in ai_move, answered as call number `call`.
DrewFirst(worker, value, call) ==
  [worker EXCEPT !.rand.first = value,
                 !.drawn_at = Append(@, call),
                 !.at = IF Selector(worker.difficulty.label, worker.difficulty.settings,
                                    value) = "beginner"
                          THEN "shuffle" ELSE "search"]

\* moves = list(board.legal_moves); random.shuffle(moves); and the for loop.
Shuffled(worker, rotation, call, loop) ==
  [worker EXCEPT !.rand.rotation = rotation,
                 !.drawn_at = Append(@, call),
                 !.loop = loop,
                 !.board = loop.board,
                 !.at = IF loop.safe_moves # <<>> THEN "second" ELSE "choose"]

\* safe_moves and random.random() > randomness
DrewSecond(worker, value, call) ==
  [worker EXCEPT !.rand.second = value, !.drawn_at = Append(@, call), !.at = "choose"]

\* The selector has returned or raised.
Selected(worker, choice) ==
  [worker EXCEPT !.choice = choice, !.board = choice.board, !.at = "respond"]

Receive ==
  \E t \in Workers :
    /\ workers[t].at = "idle"
    /\ \E fen \in ConcurrentPositions[t], difficulty \in ConcurrentDifficulties :
         workers' = [workers EXCEPT ![t] = Received(AIMoveRequest(fen, difficulty))]
    /\ UNCHANGED <<pc, request, response, selector, depth, draws, random_state, search>>

CheckGameOver ==
  \E t \in Workers :
    /\ workers[t].at = "game_over"
    /\ workers' = [workers EXCEPT ![t] = GameOverChecked(workers[t])]
    /\ UNCHANGED <<pc, request, response, selector, depth, draws, random_state, search>>

LookUpDifficulty ==
  \E t \in Workers :
    /\ workers[t].at = "label"
    /\ workers' = LookUp(workers, t)
    /\ UNCHANGED <<pc, request, response, selector, depth, draws, random_state, search>>

DrawFirst ==
  \E t \in Workers :
    /\ workers[t].at = "draw"
    /\ \E value \in ConcurrentDraws :
         workers' = [workers EXCEPT ![t] = DrewFirst(workers[t], value, random_state + 1)]
    /\ random_state' = random_state + 1
    /\ UNCHANGED <<pc, request, response, selector, depth, draws, search>>

ShuffleMoves ==
  \E t \in Workers :
    /\ workers[t].at = "shuffle"
    /\ \E rotation \in Rotations(Len(generate_legal_moves(workers[t].board))) :
         workers' =
           [workers EXCEPT ![t] =
              Shuffled(workers[t], rotation, random_state + 1,
                       BeginnerLoop(workers[t].board,
                                    Shuffle(generate_legal_moves(workers[t].board),
                                            rotation)))]
    /\ random_state' = random_state + 1
    /\ UNCHANGED <<pc, request, response, selector, depth, draws, search>>

DrawSecond ==
  \E t \in Workers :
    /\ workers[t].at = "second"
    /\ \E value \in ConcurrentDraws :
         workers' = [workers EXCEPT ![t] = DrewSecond(workers[t], value, random_state + 1)]
    /\ random_state' = random_state + 1
    /\ UNCHANGED <<pc, request, response, selector, depth, draws, search>>

ChooseBeginnerMove ==
  \E t \in Workers :
    /\ workers[t].at = "choose"
    /\ workers' =
         [workers EXCEPT ![t] =
            Selected(workers[t],
                     BeginnerChoice(workers[t].loop,
                                    workers[t].difficulty.settings.max_random_moves,
                                    workers[t].rand.second))]
    /\ UNCHANGED <<pc, request, response, selector, depth, draws, random_state, search>>

FindBestMove ==
  \E t \in Workers :
    /\ workers[t].at = "search"
    /\ workers' =
         [workers EXCEPT ![t] =
            Selected(workers[t],
                     _find_best_move(workers[t].board,
                                     workers[t].difficulty.settings.depth))]
    /\ UNCHANGED <<pc, request, response, selector, depth, draws, random_state, search>>

Respond ==
  \E t \in Workers :
    /\ workers[t].at = "respond"
    /\ workers' =
         [workers EXCEPT ![t] =
            Finished(workers[t],
                     AiMoveChosen(workers[t].difficulty.label,
                                  workers[t].difficulty.settings.depth,
                                  workers[t].choice))]
    /\ UNCHANGED <<pc, request, response, selector, depth, draws, random_state, search>>

NextConcurrent ==
  \/ Receive
  \/ CheckGameOver
  \/ LookUpDifficulty
  \/ DrawFirst
  \/ ShuffleMoves
  \/ DrawSecond
  \/ ChooseBeginnerMove
  \/ FindBestMove
  \/ Respond

SpecConcurrent == Init /\ [][NextConcurrent]_vars

Next ==
  \/ Evaluate
  \/ IsMoveSafe
  \/ LegalMoves
  \/ ApplyMove
  \/ BeginnerMove
  \/ BestMove
  \/ Hint
  \/ AiMove
  \/ Deliver

Spec == Init /\ [][Next]_vars

\* The service answering the requests that carry a difficulty label.
NextDifficulty ==
  \/ Hint
  \/ AiMove
  \/ Deliver

SpecDifficulty == Init /\ [][NextDifficulty]_vars

\* The audio segments of TTS answers merged, one call at a time.
NextMergeAudio ==
  \/ MergeAudioSegments
  \/ Deliver

SpecMergeAudio == Init /\ [][NextMergeAudio]_vars

\* The move orderer called on its own.
NextMoveOrder ==
  \/ MoveOrderScore
  \/ Deliver

SpecMoveOrder == Init /\ [][NextMoveOrder]_vars

\* The beginner heuristic called on its own.
NextBeginner ==
  \/ BeginnerMove
  \/ Deliver

SpecBeginner == Init /\ [][NextBeginner]_vars

\* Searches run step by step, and the beginner heuristic called on its own.
NextSearch ==
  \/ StartSearch
  \/ PushMove
  \/ CallNegamax
  \/ ReturnFromNegamax
  \/ PopMove
  \/ FinishSearch
  \/ BeginnerMove
  \/ Deliver

SpecSearch == Init /\ [][NextSearch]_vars

\* The evaluator called on its own.
NextEvaluate ==
  \/ Evaluate
  \/ Deliver

SpecEvaluate == Init /\ [][NextEvaluate]_vars

\* The service answering /legal-moves requests only.
NextLegalMoves ==
  \/ LegalMoves
  \/ Deliver

SpecLegalMoves == Init /\ [][NextLegalMoves]_vars

\* The service answering /apply-move requests only.
NextApplyMove ==
  \/ ApplyMove
  \/ Deliver

SpecApplyMove == Init /\ [][NextApplyMove]_vars

\* The service answering /ai-move requests only.
NextAiMove ==
  \/ AiMove
  \/ Deliver

SpecAiMove == Init /\ [][NextAiMove]_vars

(***************************************************************************)
(* Properties of the search and the evaluator                              *)
(***************************************************************************)
\* The board a request names.
RequestBoard == _board_from_fen(request.fen)

\* Negamax over every legal move of every node, without a window.
RECURSIVE FullWidthNegamax(_, _)
FullWidthNegamax(board, d) ==
  IF d = 0 \/ is_game_over(board) THEN _evaluate_board(board)
  ELSE MaxOf({-FullWidthNegamax(push(board, move), d - 1) :
                move \in Range(generate_legal_moves(board))})

\* The root score of the full-width search: the best of the root's moves.
FullWidthScore(board, d) ==
  MaxOf({-FullWidthNegamax(push(board, move), d - 1) :
           move \in Range(generate_legal_moves(board))})

\* The number of nodes below the root the full-width search visits.
RECURSIVE FullWidthNodes(_, _)
FullWidthNodes(board, d) ==
  IF d = 0 \/ is_game_over(board) THEN 1
  ELSE 1 + Sum(SeqMap(LAMBDA move : FullWidthNodes(push(board, move), d - 1),
                      generate_legal_moves(board)))

FullWidthVisited(board, d) ==
  Sum(SeqMap(LAMBDA move : FullWidthNodes(push(board, move), d - 1),
             generate_legal_moves(board)))

\* C1: for every position and every depth in 1..3 the score _find_best_move
\* returns (alpha-beta pruning in _negamax) equals the root score of an unpruned
\* full-width negamax of the same depth.
AlphaBetaEqualsFullWidth ==
  (request.op = "best_move" /\ ~response.raised)
    => response.value.score = FullWidthScore(RequestBoard, request.depth)

\* A depth-3 search that visited fewer nodes than the full-width search and
\* returned its score.
PrunedSearchAgrees ==
  /\ request.op = "best_move"
  /\ request.depth = 3
  /\ ~response.raised
  /\ response.nodes < FullWidthVisited(RequestBoard, 3)
  /\ response.value.score = FullWidthScore(RequestBoard, 3)

\* C5: for a fixed position and depth _find_best_move returns the same move and
\* the same score on every call: the call made on the board an earlier call
\* left answers as that call did.
SearchIsRepeatable ==
  request.op = "best_move"
    => /\ response.again.raised = response.raised
       /\ ~response.raised => response.again.value = response.value

\* Two depth-3 searches of a position two plies from the seventy-five-move
\* rule returned one move and one score.
RepeatedSearchAgrees ==
  /\ request.op = "best_move"
  /\ request.depth = 3
  /\ request.fen = PAWN_NEAR_SEVENTYFIVE
  /\ ~response.raised
  /\ response.again.value = response.value

\* C6: _evaluate_board returns exactly -100000 for every position in which the
\* side to move is checkmated, whatever the material and whichever colour is
\* mated.
CheckmateScoresMinusCheckmateScore ==
  (request.op = "evaluate" /\ is_checkmate(RequestBoard))
    => response.value = -100000

\* A mated Black, a rook down, is evaluated at -100000.
MatedBlackEvaluated ==
  /\ request.op = "evaluate"
  /\ request.fen = BLACK_MATED
  /\ is_checkmate(RequestBoard)
  /\ response.value = -100000

(***************************************************************************)
(* Properties of the safety checker                                        *)
(***************************************************************************)
\* The board _is_move_safe was called on.
SafetyBoard == BoardAfterLine(request.fen, request.line)

\* C2: for every legal move of a position _is_move_safe returns False exactly
\* when, after the move, the side that moved is in check or the destination
\* square is attacked by the opponent; a move that gives check and lands on a
\* square the opponent does not attack is safe.
UnsafeExactlyWhenExposed ==
  (request.op = "is_move_safe" /\ ~request.fault)
    => ((response.outcome = "False")
          <=> \/ InCheck(push(SafetyBoard, request.move).pieces, SafetyBoard.turn)
              \/ is_attacked_by(push(SafetyBoard, request.move), ~SafetyBoard.turn,
                                request.move.to_square))

\* C10: _is_move_safe leaves the position unmodified: when it returns True or
\* False, or an exception raised after the move was applied leaves it, the
\* board and its move stack are what they were before the call.
SafetyCheckRestoresBoard ==
  request.op = "is_move_safe" => response.board = SafetyBoard

\* An exception left _is_move_safe on a board with a move already played, and
\* the board and its stack are as before the call.
RestoredAfterException ==
  /\ request.op = "is_move_safe"
  /\ request.fault
  /\ request.line # <<>>
  /\ response.outcome = "raise"
  /\ Len(response.board.stack) = 1
  /\ response.board = SafetyBoard

(***************************************************************************)
(* Properties of the handlers                                              *)
(***************************************************************************)
\* C3: hint on "8/8/8/4k3/4N3/4K3/8/8 w - - 0 1" with difficulty "advanced"
\* answers with success and suggests e4f6.
KnightPuzzleHintIsE4F6 ==
  (request.op = "hint" /\ request.fen = PUZZLE_KNIGHT
     /\ request.difficulty = {LABEL_ADVANCED})
    => /\ ~response.raised
       /\ response.value.hint.uci = "e4f6"

\* The detail of the error each handler raises on a finished game.
GameAlreadyOver ==
  [ai_move |-> "Game is already finished. No moves available.",
   hint |-> "Game is already finished.",
   legal_moves |-> "Game is already over. Start a new game to continue playing."]

\* C4: on a position the rules engine reports over (checkmate, stalemate or a
\* draw) ai_move, hint and legal_moves answer with the game-over error and no
\* move, for every difficulty label, known, unknown or absent, and every
\* square: the check is made before the label or the square is examined.
GameOverComesFirst ==
  (request.op \in DOMAIN GameAlreadyOver /\ is_game_over(RequestBoard))
    => /\ response.raised
       /\ response.status_code = 400
       /\ response.detail = GameAlreadyOver[request.op]
       /\ selector = "none"

\* legal_moves for an empty square of a mated position answered game over.
EmptySquareOnFinishedGame ==
  /\ request.op = "legal_moves"
  /\ request.fen = WHITE_MATED
  /\ request.square = "d4"
  /\ response.raised
  /\ response.detail = GameAlreadyOver.legal_moves

\* C7: ai_move uses the beginner heuristic only when the resolved label is
\* explorer or beginner and the random draw is below the profile's probability;
\* in every other case, always for intermediate and advanced, the move comes
\* from the search at the profile's depth.
BeginnerHeuristicOnlyOnLowDraw ==
  (request.op = "ai_move" /\ ~response.raised)
    => /\ (selector = "beginner")
            <=> /\ response.value.difficulty \in {"explorer", "beginner"}
                /\ draws # <<>>
                /\ draws[1] < DIFFICULTY_SETTINGS[response.value.difficulty].max_random_moves
       /\ selector # "beginner"
            => /\ selector = "search"
               /\ depth = {DIFFICULTY_SETTINGS[response.value.difficulty].depth}
       /\ response.value.difficulty \in {"intermediate", "advanced"}
            => selector = "search"

\* An explorer request whose draw of 0.40 fell below 0.60 was answered by the
\* beginner heuristic.
ExplorerDrewBeginnerHeuristic ==
  /\ request.op = "ai_move"
  /\ ~response.raised
  /\ response.value.difficulty = "explorer"
  /\ draws # <<>>
  /\ draws[1] = 40
  /\ selector = "beginner"

\* The label hint resolves: the one supplied, or the default for the move number.
HintLabel ==
  IF request.difficulty \in {{}, {<<>>}}
    THEN (IF request.fen.fullmove_number > 20 THEN "advanced" ELSE "intermediate")
  ELSE IF request.difficulty = {LABEL_EXPLORER} THEN "explorer"
  ELSE IF request.difficulty = {LABEL_INTERMEDIATE_PADDED} THEN "intermediate"
  ELSE "advanced"

\* C8: hint always takes its move from the search, never from the beginner
\* heuristic, whatever the label; without a difficulty it uses advanced when
\* the full-move number is above 20 and intermediate otherwise; the depth is
\* max(1, profile depth); the evaluation reported is the search score of the
\* suggested move.
HintAlwaysSearches ==
  (request.op = "hint" /\ ~response.raised)
    => /\ selector = "search"
       /\ draws = <<>>
       /\ depth = {Max2(1, DIFFICULTY_SETTINGS[HintLabel].depth)}
       /\ \A d \in depth :
            /\ response.value.evaluation = _find_best_move(RequestBoard, d).value.score
            /\ response.value.hint.uci = uci(_find_best_move(RequestBoard, d).value.move)

\* A hint without a difficulty at move 21 searched three plies deep.
DefaultHintAfterMove20 ==
  /\ request.op = "hint"
  /\ request.difficulty = {}
  /\ request.fen = PAWN_MOVE_21
  /\ ~response.raised
  /\ selector = "search"
  /\ depth = {3}

\* C9: on every successful ai_move the move returned is a legal move of the
\* input position and the position returned is the input position with that
\* one move applied: the side to move flipped, the full-move number unchanged
\* after a White move and one higher after a Black move, for every difficulty
\* and both ways of selecting.
AiMovePlaysOneLegalMove ==
  (request.op = "ai_move" /\ ~response.raised)
    => \E move \in LegalMoveSet(request.fen) :
         /\ uci(move) = response.value.move.uci
         /\ response.value.fen = fen_of(push(RequestBoard, move))
         /\ response.value.fen.turn = ~request.fen.turn
         /\ response.value.fen.fullmove_number
              = request.fen.fullmove_number + (IF request.fen.turn = BLACK THEN 1 ELSE 0)

\* The beginner heuristic answered for Black at move 26 and the position
\* returned is at move 27 with White to move.
BlackHeuristicMoveApplied ==
  /\ request.op = "ai_move"
  /\ request.fen = BLACK_KNIGHT
  /\ ~response.raised
  /\ selector = "beginner"
  /\ response.value.fen.turn = WHITE
  /\ response.value.fen.fullmove_number = 27
  /\ response.value.move.uci \in {uci(move) : move \in LegalMoveSet(BLACK_KNIGHT)}

(***************************************************************************)
(* Properties of /apply-move                                               *)
(***************************************************************************)
\* The move an /apply-move request names: the squares of its move text and the
\* promotion letter of the text or, when the text has none, of the promotion field.
SubmittedMove ==
  Move(parse_square(request.move[1] \o request.move[2]),
       parse_square(request.move[3] \o request.move[4]),
       IF Len(request.move) = 5 THEN PieceTypeOfLetter(request.move[5])
       ELSE IF request.promotion # {}
         THEN PieceTypeOfLetter(CHOOSE letter \in request.promotion : TRUE)
       ELSE "")

IllegalMove == HTTPException(400, "Illegal move for the current board state.")

InvalidMoveEncoding == HTTPException(400, "Invalid move encoding.")

\* The /apply-move answer carries the position after the submitted move.
AnswersPositionAfterMove ==
  /\ ~response.raised
  /\ response.value.fen = fen_of(push(RequestBoard, SubmittedMove))

\* A castling move written as the king moving onto its own rook.
KingOntoRook(move) ==
  Move(move.from_square,
       square(IF square_file(move.to_square) = 6 THEN 7 ELSE 0,
              square_rank(move.from_square)),
       "")

\* The moves the rules engine accepts on a position: its legal moves and the
\* second encoding of its castling moves.
AcceptedMoves(fen) ==
  LegalMoveSet(fen)
    \cup {KingOntoRook(move) :
            move \in {mv \in LegalMoveSet(fen) : is_castling(_board_from_fen(fen), mv)}}

\* C11 as stated: /apply-move answers IllegalMove for every move that is not among
\* the legal moves of the position, and the position after the move otherwise.
IllegalMoveUnlessLegal ==
  (pc = "done" /\ request.op = "apply_move") =>
    IF SubmittedMove \in LegalMoveSet(request.fen)
      THEN AnswersPositionAfterMove
      ELSE response = IllegalMove

\* C11: /apply-move answers InvalidMoveEncoding for a move whose two squares
\* coincide, IllegalMove (and no position) for any other move the rules engine
\* does not accept, and the position after exactly that move for an accepted
\* move; a castling move is accepted also when written as king onto rook.
ApplyMoveRejectsOrPushes ==
  (pc = "done" /\ request.op = "apply_move") =>
    IF SubmittedMove.from_square = SubmittedMove.to_square
      THEN response = InvalidMoveEncoding
    ELSE IF SubmittedMove \in AcceptedMoves(request.fen)
      THEN AnswersPositionAfterMove
    ELSE response = IllegalMove

\* A pawn move sent without its promotion letter was played as the promotion the
\* promotion field names.
PromotionFieldApplied ==
  /\ pc = "done"
  /\ request.op = "apply_move"
  /\ Len(request.move) = 4
  /\ request.promotion = {"n"}
  /\ AnswersPositionAfterMove
  /\ response.value.move.promotion = "n"

(***************************************************************************)
(* Properties of the difficulty labels                                     *)
(***************************************************************************)
\* The profile a label sent by a client names, if any.
ProfileNamed(label) ==
  IF label = LABEL_EXPLORER THEN {"explorer"}
  ELSE IF label = LABEL_BEGINNER THEN {"beginner"}
  ELSE IF label \in {LABEL_INTERMEDIATE, LABEL_INTERMEDIATE_PADDED} THEN {"intermediate"}
  ELSE IF label = LABEL_ADVANCED THEN {"advanced"}
  ELSE {}

UnknownDifficulty(label) ==
  HTTPException(400, "Unknown difficulty '" \o Text(label)
                       \o "'. Choose from explorer, beginner, intermediate, advanced")

\* The answer of ai_move or hint was made with the profile `name`.
AnsweredWithProfile(name) ==
  /\ ~response.raised
  /\ request.op = "ai_move"
       => /\ response.value.difficulty = name
          /\ response.value.depth = DIFFICULTY_SETTINGS[name].depth
  /\ request.op = "hint"
       => /\ depth = {Max2(1, DIFFICULTY_SETTINGS[name].depth)}
          /\ response.value.suggestion
               = (IF name \in {"explorer", "beginner"} THEN "defend" ELSE "plan")

\* The label of a request is answered as C12 states: with the profile it names,
\* or with UnknownDifficulty when it names none.
LabelResolvedOrRefused(label) ==
  IF ProfileNamed(label) = {}
    THEN response = UnknownDifficulty(label)
    ELSE \A name \in ProfileNamed(label) : AnsweredWithProfile(name)

\* C12 as stated: on a game that is not over every label sent to ai_move or hint
\* is resolved, whatever its case and surrounding whitespace, to one of the four
\* profiles, and any other label is answered with UnknownDifficulty listing the
\* four labels.
EveryOtherLabelRefused ==
  (pc = "done" /\ request.op \in {"ai_move", "hint"} /\ ~is_game_over(RequestBoard))
    => \A label \in request.difficulty : LabelResolvedOrRefused(label)

\* C12: on a game that is not over every label sent to ai_move, and every
\* non-empty label sent to hint, is resolved, whatever its case and surrounding
\* whitespace, to one of the four profiles or else answered with
\* UnknownDifficulty listing the four labels and no move; hint reads an empty
\* label as no label and answers with its default profile.
LabelsResolvedOrRefused ==
  (pc = "done" /\ request.op \in {"ai_move", "hint"} /\ ~is_game_over(RequestBoard))
    => \A label \in request.difficulty :
         IF request.op = "hint" /\ label = <<>>
           THEN AnsweredWithProfile(IF request.fen.fullmove_number > 20
                                      THEN "advanced" ELSE "intermediate")
           ELSE LabelResolvedOrRefused(label)

\* hint refused the label "expert" on a game that is not over.
ExpertLabelRefused ==
  /\ pc = "done"
  /\ request.op = "hint"
  /\ request.difficulty = {LABEL_EXPERT}
  /\ ~is_game_over(RequestBoard)
  /\ response = UnknownDifficulty(LABEL_EXPERT)

(***************************************************************************)
(* Properties of the positions handed to the move selection                *)
(***************************************************************************)
NoLegalMoves == HTTPException(400, "No legal moves available. The game might be over.")

\* ai_move or hint answered a request and the answer is not the game-over error:
\* the position went on to the label lookup and the move selection.
PassedGameOverCheck ==
  /\ pc = "done"
  /\ request.op \in {"ai_move", "hint"}
  /\ ~(response.raised /\ response.detail = GameAlreadyOver[request.op])

\* C13: once the game-over check of ai_move or hint has passed, the position has
\* at least one legal move, the answer is never NoLegalMoves nor the failure of
\* the beginner heuristic on an empty move list, and unless the label is
\* unknown a legal move of the position is returned.
MoveReturnedOncePastGameOver ==
  PassedGameOverCheck
    => /\ LegalMoveSet(request.fen) # {}
       /\ response # NoLegalMoves
       /\ response.raised
            => /\ response.status_code = 400
               /\ \E label \in request.difficulty : response = UnknownDifficulty(label)
       /\ ~response.raised
            => \E move \in LegalMoveSet(request.fen) :
                 uci(move) = (IF request.op = "hint" THEN response.value.hint.uci
                              ELSE response.value.move.uci)

\* ai_move, past the game-over check with a king in check, returned the capture
\* of the checking rook.
MoveOutOfCheckReturned ==
  /\ PassedGameOverCheck
  /\ request.op = "ai_move"
  /\ request.fen = WHITE_IN_CHECK
  /\ is_check(RequestBoard)
  /\ ~response.raised
  /\ response.value.move.uci = "e1e2"

\* C14: called on a position without a legal move, _find_best_move and
\* _choose_beginner_move both fail with NoLegalMoves: neither returns a move nor
\* fails in another way.
ZeroMovesFailWithNoLegalMoves ==
  (/\ pc = "done"
   /\ request.op \in {"best_move", "beginner_move"}
   /\ LegalMoveSet(request.fen) = {})
    => /\ response.raised
       /\ response.status_code = NoLegalMoves.status_code
       /\ response.detail = NoLegalMoves.detail

(***************************************************************************)
(* Properties of the evaluator's symmetry                                  *)
(***************************************************************************)
\* The evaluation of a board with the mobility term taken out again (the
\* terminal scores carry none).
WithoutMobility(board) ==
  IF is_checkmate(board) \/ is_stalemate(board) \/ is_insufficient_material(board)
    THEN _evaluate_board(board)
    ELSE _evaluate_board(board) - mobility_bonus(board)

\* C15: the evaluation of a position, mobility set aside, is the negation of the
\* evaluation, mobility set aside, of its colour-flipped mirror.
EvaluationNegatedByColourFlip ==
  (pc = "done" /\ request.op = "evaluate")
    => /\ response.value = _evaluate_board(RequestBoard)
       /\ WithoutMobility(RequestBoard)
            = -WithoutMobility(_board_from_fen(ColourFlipped(request.fen)))

(***************************************************************************)
(* Properties of /legal-moves                                              *)
(***************************************************************************)
\* The legal moves of the requested position that start on the requested square.
MovesFromRequestedSquare ==
  {move \in LegalMoveSet(request.fen) : square_name(move.from_square) = request.square}

\* The MoveInfo of `move` carries its squares and its three flags.
Annotated(info, move) ==
  /\ info.uci = uci(move)
  /\ info.from_square = request.square
  /\ info.to_square = square_name(move.to_square)
  /\ info.is_capture
       = (\/ move.to_square \in DOMAIN request.fen.pieces
          \/ /\ request.fen.pieces[move.from_square].piece_type = PAWN
             /\ square_file(move.from_square) # square_file(move.to_square))
  /\ info.gives_check = InCheck(push(RequestBoard, move).pieces, ~request.fen.turn)
  /\ info.is_safe = _is_move_safe(RequestBoard, move)

\* C16: on a position that is not over, for a square holding a piece of the side
\* to move, legal_moves returns each legal move starting on that square exactly
\* once and no other move, each with its capture, check and safety flags; for
\* the starting position and e2 these are e2e3 and e2e4, neither a capture.
LegalMovesOfTheSquare ==
  (/\ pc = "done"
   /\ request.op = "legal_moves"
   /\ ~is_game_over(RequestBoard)
   /\ IsOwn(request.fen.pieces, request.fen.turn, parse_square(request.square)))
    => /\ ~response.raised
       /\ Len(response.value.legal_moves) = Cardinality(MovesFromRequestedSquare)
       /\ \A move \in MovesFromRequestedSquare :
            \E i \in 1..Len(response.value.legal_moves) :
              Annotated(response.value.legal_moves[i], move)
       /\ (request.fen = STARTING_FEN /\ request.square = "e2")
            => /\ {info.uci : info \in Range(response.value.legal_moves)} = {"e2e3", "e2e4"}
               /\ \A info \in Range(response.value.legal_moves) : ~info.is_capture

\* legal_moves answered for e2 on the starting position with two moves.
StartingPositionE2 ==
  /\ pc = "done"
  /\ request.op = "legal_moves"
  /\ request.fen = STARTING_FEN
  /\ request.square = "e2"
  /\ ~response.raised
  /\ Len(response.value.legal_moves) = 2

(***************************************************************************)
(* Properties of concurrent requests                                       *)
(***************************************************************************)
\* The answer ai_move gives to the request of a thread when it runs alone and
\* the random module returns the values the thread was given.
AnswerAlone(worker) == ai_move(worker.payload, worker.rand).response

\* C17: under every interleaving of two /ai-move requests on distinct positions
\* each thread works on its own board and answers what ai_move answers to its
\* request when run alone with the same random draws.
ConcurrentRequestsDoNotInteract ==
  \A t \in Workers :
    /\ workers[t].at # "idle" => workers[t].payload.fen \in ConcurrentPositions[t]
    /\ workers[t].at \in {"game_over", "label", "draw", "shuffle", "search"}
         => workers[t].board = _board_from_fen(workers[t].payload.fen)
    /\ workers[t].at = "done" => workers[t].result = AnswerAlone(workers[t])

\* Both threads have answered with a move of the beginner heuristic, and their
\* calls of the shared random generator alternated.
InterleavedDrawsAnswered ==
  /\ \A t \in Workers : workers[t].at = "done" /\ ~workers[t].result.raised
  /\ workers[1].drawn_at = <<1, 3, 5>>
  /\ workers[2].drawn_at = <<2, 4, 6>>
  /\ random_state = 6

(***************************************************************************)
(* Properties of the drawn positions                                       *)
(***************************************************************************)
\* The side to move has no legal move and is not in check.
Stalemated(fen) ==
  /\ LegalMoveSet(fen) = {}
  /\ ~InCheck(fen.pieces, fen.turn)

\* Neither side can mate: apart from the kings the board holds nothing, or one
\* knight, or bishops that all stand on squares of one colour.
CannotMate(fen) ==
  /\ \A sq \in DOMAIN fen.pieces : fen.pieces[sq].piece_type \in {KING, KNIGHT, BISHOP}
  /\ \/ Cardinality({sq \in DOMAIN fen.pieces : fen.pieces[sq].piece_type # KING}) <= 1
     \/ /\ \A sq \in DOMAIN fen.pieces : fen.pieces[sq].piece_type # KNIGHT
        /\ \A sq1, sq2 \in {sq \in DOMAIN fen.pieces : fen.pieces[sq].piece_type = BISHOP} :
             (square_file(sq1) + square_rank(sq1)) % 2
               = (square_file(sq2) + square_rank(sq2)) % 2

\* C18: the evaluation of every position that is stalemate or has insufficient
\* material, and is not checkmate, is 0, whatever the material, the placement
\* and the side to move.
DrawnPositionsEvaluateToZero ==
  (/\ pc = "done"
   /\ request.op = "evaluate"
   /\ ~(LegalMoveSet(request.fen) = {} /\ InCheck(request.fen.pieces, request.fen.turn))
   /\ Stalemated(request.fen) \/ CannotMate(request.fen))
    => response = Return(0)

\* A stalemated side a queen down was evaluated at 0.
StalemateWithMaterialEvaluated ==
  /\ pc = "done"
  /\ request.op = "evaluate"
  /\ Stalemated(request.fen)
  /\ ~CannotMate(request.fen)
  /\ material_score(RequestBoard) # 0
  /\ response = Return(0)

(***************************************************************************)
(* Properties of the positional score                                      *)
(***************************************************************************)
\* The endgame phase: at most four bishops and knights in all, and no queen.
EndgamePhase(fen) ==
  /\ Cardinality({sq \in DOMAIN fen.pieces :
                    fen.pieces[sq].piece_type \in {BISHOP, KNIGHT}}) <= 4
  /\ \A sq \in DOMAIN fen.pieces : fen.pieces[sq].piece_type # QUEEN

\* The table a piece reads: the king's is the one of the phase.
TableOf(fen, piece_type) ==
  IF piece_type # KING THEN TABLE_LOOKUP[piece_type]
  ELSE IF EndgamePhase(fen) THEN KING_TABLE_END
  ELSE KING_TABLE_MID

\* What the piece on `sq` adds to the positional score: for White the entry of
\* its table at its square, for Black the negated entry at the mirrored square.
MirroredContribution(fen, sq) ==
  IF fen.pieces[sq].color = WHITE
    THEN TableOf(fen, fen.pieces[sq].piece_type)[sq + 1]
    ELSE -TableOf(fen, fen.pieces[sq].piece_type)[_mirror_square_for_black(sq) + 1]

RECURSIVE SumOver(_, _)
SumOver(fen, squares) ==
  IF squares = {} THEN 0
  ELSE MirroredContribution(fen, CHOOSE sq \in squares : TRUE)
         + SumOver(fen, squares \ {CHOOSE sq \in squares : TRUE})

\* C20: the positional score of evaluate is the sum, over the pieces, of the
\* table entry at the piece's square for a White piece and of the negated entry
\* at the mirrored square for a Black piece, the kings included and reading the
\* table of the phase.
PositionalScoreMirrorsBlack ==
  (pc = "done" /\ request.op = "evaluate")
    => /\ response.value = _evaluate_board(RequestBoard)
       /\ positional_score(RequestBoard) = SumOver(request.fen, DOMAIN request.fen.pieces)

(***************************************************************************)
(* _merge_audio_segments on WAV segments of equal parameters               *)
(***************************************************************************)
\* The segment carries a base64 text that decodes to a file the wave module
\* reads.
IsWavSegment(segment) ==
  /\ segment[1] # {}
  /\ ~b64decode(TheOne(segment[1])).raised
  /\ WaveRead(b64decode(TheOne(segment[1])).value) # {}

\* The parameters and frames the wave module reads from a WAV segment, and
\* from the merged data.
WavOfText(text) == TheOne(WaveRead(b64decode(text).value))

WavOfSegment(segment) == WavOfText(TheOne(segment[1]))

SameParameters(a, b) ==
  /\ a.nchannels = b.nchannels
  /\ a.sampwidth = b.sampwidth
  /\ a.framerate = b.framerate

\* The frames of the segments one after the other, and how many they are.
RECURSIVE FramesInOrder(_)
FramesInOrder(segments) ==
  IF segments = <<>> THEN <<>>
  ELSE WavOfSegment(Head(segments)).frames \o FramesInOrder(Tail(segments))

RECURSIVE FrameCount(_)
FrameCount(segments) ==
  IF segments = <<>> THEN 0
  ELSE WavOfSegment(Head(segments)).nframes + FrameCount(Tail(segments))

\* A call on one or more WAV segments that all have the channel count, sample
\* width and frame rate of the first has returned.
MergedWavSegmentsOfEqualParameters ==
  /\ pc = "done"
  /\ request.op = "merge_audio_segments"
  /\ request.segments # <<>>
  /\ \A i \in 1..Len(request.segments) : IsWavSegment(request.segments[i])
  /\ \A i \in 1..Len(request.segments) :
       SameParameters(WavOfSegment(request.segments[i]), WavOfSegment(request.segments[1]))

\* The answer is ("audio/wav"-typed) base64 of one WAV file.
AnsweredOneWav ==
  /\ ~response.raised
  /\ response.value[2] = {"audio/wav"}
  /\ response.value[1] # {}
  /\ ~b64decode(TheOne(response.value[1])).raised
  /\ WaveRead(b64decode(TheOne(response.value[1])).value) # {}

CapturedValue(board, move) ==
  IF is_en_passant(board, move) THEN PIECE_VALUES[PAWN]
  ELSE IF is_capture(board, move)
    THEN PIECE_VALUES[piece_at(board, move.to_square).piece_type]
  ELSE 0

\* C21: the priority of a move is the sum of 10 times the value of the
\* captured piece for every capturing move, en passant captures included, of
\* 80 if the move gives check, of 40 if it is castling and of 25 if its
\* destination is d4, e4, d5 or e5; a move matching none of these has
\* priority 0.
PriorityIsSumOfRules ==
  (pc = "done" /\ request.op = "move_order_score")
    => response.value =
         10 * CapturedValue(RequestBoard, request.move)
           + (IF gives_check(RequestBoard, request.move) THEN 80 ELSE 0)
           + (IF is_castling(RequestBoard, request.move) THEN 40 ELSE 0)
           + (IF square_name(request.move.to_square) \in {"d4", "e4", "d5", "e5"}
                THEN 25 ELSE 0)

(***************************************************************************)
(* How evaluate combines its terms                                         *)
(***************************************************************************)
\* raw: the White-relative sum of the five terms.
RawScore(board) ==
  material_score(board) + positional_score(board) + center_control(board)
    + king_safety(board) + bishop_pair_bonus(board)

\* 5 x the number of legal moves of the side to move.
MobilityOfSideToMove(fen) == 5 * Cardinality(LegalMoveSet(fen))

\* evaluate has answered for a position in which the game is not over.
EvaluatedNonTerminal ==
  /\ pc = "done"
  /\ request.op = "evaluate"
  /\ ~is_game_over(RequestBoard)

\* C22: for a non-terminal position evaluate returns raw + mobility when
\* White is to move and -raw + mobility when Black is to move, where raw =
\* material + positional + center + king_safety + bishop_pair is
\* White-relative and mobility = 5 x (number of legal moves of the side to
\* move) is added unsigned in both cases: the part of the value that is not
\* the signed raw score is never negative.
MobilityAddedUnsigned ==
  EvaluatedNonTerminal =>
    /\ request.fen.turn = WHITE
         => response.value = RawScore(RequestBoard) + MobilityOfSideToMove(request.fen)
    /\ request.fen.turn = BLACK
         => response.value = -RawScore(RequestBoard) + MobilityOfSideToMove(request.fen)
    /\ request.fen.turn = BLACK => response.value + RawScore(RequestBoard) > 0

\* evaluate has answered for Black to move in the pawn puzzle: the three
\* moves of the Black king add 15 to the negated raw score.
BlackToMoveEvaluatedWithMobility ==
  /\ EvaluatedNonTerminal
  /\ request.fen = PAWN_BLACK_TO_MOVE
  /\ MobilityOfSideToMove(request.fen) > 0
  /\ response.value = MobilityOfSideToMove(request.fen) - RawScore(RequestBoard)
  /\ response.value # -(RawScore(RequestBoard) + MobilityOfSideToMove(request.fen))

(***************************************************************************)
(* The beginner heuristic: the fallback branch                             *)
(***************************************************************************)
\* The score the heuristic records for a legal move: the negated evaluation
\* of the position after it, minus 150 if the move is unsafe.
RecordedScore(board, move) ==
  -_evaluate_board(push(board, move)) - (IF _is_move_safe(board, move) THEN 0 ELSE 150)

SafeMoves(board) ==
  {move \in Range(generate_legal_moves(board)) : _is_move_safe(board, move)}

\* The beginner heuristic has ended on a call in which no legal move is safe
\* or the draw did not exceed the randomness.
BeginnerFallbackCase ==
  /\ pc = "done"
  /\ request.op = "beginner_move"
  /\ SafeMoves(RequestBoard) = {} \/ ~(request.rand.second > request.randomness)

\* The answer is a legal move with the highest recorded score of all.
HighestRecordedScoreReturned ==
  /\ ~response.raised
  /\ response.value.move \in Range(generate_legal_moves(RequestBoard))
  /\ response.value.score = RecordedScore(RequestBoard, response.value.move)
  /\ \A move \in Range(generate_legal_moves(RequestBoard)) :
       RecordedScore(RequestBoard, move) <= response.value.score

BeginnerSafeCase ==
  /\ pc = "done"
  /\ request.op = "beginner_move"
  /\ SafeMoves(RequestBoard) # {}
  /\ request.rand.second > request.randomness

\* C25: when at least one safe move exists and the inner random draw selects
\* the safe branch (draw > randomness), the returned move is a member of the
\* safe subset whose move-orderer priority is maximal among the safe moves,
\* and its score is the negated evaluation of the position after it with no
\* penalty applied.
SafeBranchReturnsBestSafeMove ==
  BeginnerSafeCase =>
    /\ ~response.raised
    /\ response.branch = "safe"
    /\ response.value.move \in SafeMoves(RequestBoard)
    /\ \A move \in SafeMoves(RequestBoard) :
         _move_order_score(RequestBoard, move)
           <= _move_order_score(RequestBoard, response.value.move)
    /\ response.value.score = -_evaluate_board(push(RequestBoard, response.value.move))

\* The safe branch returned a safe move of positive priority although a safe
\* move of lower priority came earlier in the shuffled order or later.
SafeMoveOfHigherPriorityReturned ==
  /\ BeginnerSafeCase
  /\ response.branch = "safe"
  /\ _move_order_score(RequestBoard, response.value.move) > 0
  /\ \E move \in SafeMoves(RequestBoard) :
       _move_order_score(RequestBoard, move)
         < _move_order_score(RequestBoard, response.value.move)

(***************************************************************************)
(* The beginner heuristic: checking moves                                  *)
(***************************************************************************)
\* C30: the safe branch of the beginner heuristic never returns a move that
\* gives check or checkmate: every move placed in the safe subset leaves the
\* opponent not in check, so a mating move is returned by the beginner
\* heuristic only through the highest-score fallback branch.
SafeBranchNeverChecks ==
  (pc = "done" /\ request.op = "beginner_move" /\ ~response.raised) =>
    /\ \A move \in SafeMoves(RequestBoard) :
         /\ ~is_check(push(RequestBoard, move))
         /\ ~gives_check(RequestBoard, move)
    /\ response.branch = "safe" =>
         /\ ~gives_check(RequestBoard, response.value.move)
         /\ ~is_checkmate(push(RequestBoard, response.value.move))
    /\ is_checkmate(push(RequestBoard, response.value.move)) => response.branch = "fallback"

\* With safe moves at hand, the heuristic returned a mating move, and did so
\* through the fallback branch.
MateReturnedByFallback ==
  /\ pc = "done"
  /\ request.op = "beginner_move"
  /\ ~response.raised
  /\ SafeMoves(RequestBoard) # {}
  /\ is_checkmate(push(RequestBoard, response.value.move))
  /\ response.branch = "fallback"

(***************************************************************************)
(* The evaluation /ai-move reports                                         *)
(***************************************************************************)
\* /ai-move has answered with a move.
AiMoveAnswered == pc = "done" /\ request.op = "ai_move" /\ ~response.raised

\* C29: the evaluation reported by compute_ai_move is evaluate applied to the
\* position after the chosen move, i.e. relative to the side to move after
\* the AI has played: whenever the AI's move delivers checkmate the response
\* has status is_checkmate true and evaluation exactly -CHECKMATE_SCORE,
\* whichever colour the AI plays.
EvaluationIsOfPositionAfterMove ==
  AiMoveAnswered =>
    /\ response.value.fen.turn # request.fen.turn
    /\ response.value.evaluation = _evaluate_board(_board_from_fen(response.value.fen))
    /\ is_checkmate(_board_from_fen(response.value.fen))
         => /\ response.value.status.is_checkmate
            /\ response.value.evaluation = -CHECKMATE_SCORE

\* The AI, playing Black, has mated: the response reports checkmate and
\* -CHECKMATE_SCORE, the value for White, who is to move.
BlackAiMatedReportsMinusCheckmateScore ==
  /\ AiMoveAnswered
  /\ request.fen = BLACK_MATES
  /\ response.value.fen.turn = WHITE
  /\ response.value.status.is_checkmate
  /\ response.value.evaluation = -CHECKMATE_SCORE

(***************************************************************************)
(* Search and the beginner heuristic undo every move they apply            *)
(***************************************************************************)
\* The step-wise search returns what _find_best_move computes.
StepwiseSearchAgrees ==
  (pc = "done" /\ request.op = "search")
    => response = _find_best_move(RequestBoard, request.depth)
                    @@ [cutoffs |-> response.cutoffs]

\* The moves applied and not undone, and the calls that hold one of them:
\* a call holds its move from board.push to board.pop.
AppliedMoves == Len(search.board.stack)

HoldingMove == {k \in 1..Len(search.frames) :
                  search.frames[k].at \in {"pushed", "called", "returned"}}

\* The depth of the recursion: the calls of _negamax in progress.
RecursionDepth == Len(search.frames) - 1

\* C23: search and the beginner heuristic keep apply/undo balanced: at every
\* point during _find_best_move/_negamax the number of applied-but-not-undone
\* moves equals the current recursion depth (one more between a call's push
\* and the entry of the call it makes, and between that call's return and the
\* pop) and never exceeds the requested depth, and when _find_best_move or
\* _choose_beginner_move returns, the board and its move stack equal the
\* input position, including when siblings are cut off by alpha >= beta.
ApplyUndoBalanced ==
  /\ pc = "searching" =>
       /\ AppliedMoves = Cardinality(HoldingMove)
       /\ AppliedMoves = RecursionDepth
                           + (IF Top(search).at \in {"pushed", "returned"} THEN 1 ELSE 0)
       /\ AppliedMoves <= request.depth
       /\ Top(search).at \in {"loop", "return"} => search.board = Top(search).st.board
  /\ (pc = "done" /\ request.op \in {"search", "beginner_move"})
       => response.board = RequestBoard

\* A search at depth 3 in which alpha >= beta cut siblings off has returned,
\* and the board is the input position with an empty move stack.
RestoredAfterCutoffs ==
  /\ pc = "done"
  /\ request.op = "search"
  /\ request.depth = 3
  /\ response.cutoffs > 0
  /\ ~response.raised
  /\ response.board = RequestBoard
  /\ response.board.stack = <<>>

(***************************************************************************)
(* Every search terminates                                                 *)
(***************************************************************************)
\* The depths of the calls in progress: the root depth is one of the
\* configured 1, 2, 3, each call of _negamax has the depth of its caller less
\* one, no depth is negative, and a call at depth 0 does not loop.
DepthsDecreaseToZero ==
  pc = "searching" =>
    /\ search.frames[1].fn = "_find_best_move"
    /\ search.frames[1].depth = request.depth
    /\ search.frames[1].depth \in 1..3
    /\ \A k \in 2..Len(search.frames) :
         /\ search.frames[k].fn = "_negamax"
         /\ search.frames[k].depth = search.frames[k - 1].depth - 1
         /\ search.frames[k].depth >= 0
         /\ search.frames[k].depth = 0 => search.frames[k].at = "return"

\* An upper bound on the steps a call of _negamax entered at depth d takes
\* until it has returned: one step at depth 0, else a push, a call, the
\* callee's steps and a pop for each of at most 32 moves, and the return.
RECURSIVE StepsOfCall(_)
StepsOfCall(d) == IF d <= 0 THEN 1 ELSE 32 * (3 + StepsOfCall(d - 1)) + 1

\* The steps a call in progress still takes at most, those of the call it is
\* waiting for not counted.
StepsLeft(frame) ==
  IF frame.at = "return" THEN 1
  ELSE (Len(frame.ordered_moves) - frame.i) * (3 + StepsOfCall(frame.depth - 1))
         + (IF frame.at = "loop" THEN 4 + StepsOfCall(frame.depth - 1)
            ELSE IF frame.at = "pushed" THEN 3 + StepsOfCall(frame.depth - 1)
            ELSE 2)

RECURSIVE StepsLeftOfAll(_)
StepsLeftOfAll(frames) ==
  IF frames = <<>> THEN 0 ELSE StepsLeft(Head(frames)) + StepsLeftOfAll(Tail(frames))

\* Every step of a search leaves fewer steps to take, and a search with no
\* step left has returned.
SearchProgresses ==
  (pc = "searching" /\ pc' = "searching")
    => /\ StepsLeftOfAll(search'.frames) < StepsLeftOfAll(search.frames)
       /\ StepsLeftOfAll(search'.frames) >= 1

\* C27: every search terminates: _negamax is only ever entered with
\* depth >= 0 (the root depth is one of the configured 1, 2, 3 and each
\* recursive call decreases the depth by exactly 1), so the depth == 0 base
\* case is always reached and recursion never continues with a negative
\* depth; the number of steps a search can still take is bounded through the
\* depths of its calls and decreases with every step.
EverySearchTerminates ==
  /\ []DepthsDecreaseToZero
  /\ [][SearchProgresses]_vars

\* A search at depth 3 has reached the base case: the third nested call of
\* _negamax has depth 0 and returns the evaluation of a position in which the
\* game is not over.
BaseCaseReachedAtDepthZero ==
  /\ pc = "searching"
  /\ request.depth = 3
  /\ Len(search.frames) = 4
  /\ Top(search).depth = 0
  /\ Top(search).at = "return"
  /\ ~Top(search).game_over

\* The calls of _negamax in progress that returned at once on a position that
\* is game over.
GameOverLeaves ==
  {k \in 1..Len(search.frames) :
     /\ search.frames[k].fn = "_negamax"
     /\ search.frames[k].at = "return"
     /\ search.frames[k].game_over}

\* C28: every position at which _negamax stops because the game is over
\* (checkmate, stalemate, insufficient material, 75-move rule, fivefold
\* repetition) is scored -CHECKMATE_SCORE or 0, never a heuristic score.
GameOverLeafScoredMateOrDraw ==
  pc = "searching" =>
    \A k \in GameOverLeaves :
      search.frames[k].value \subseteq {-CHECKMATE_SCORE, 0}

\* A call of _negamax with depth left stopped by the 75-move rule.
SeventyFiveMoveLeafScoredHeuristically ==
  /\ pc = "searching"
  /\ \E k \in GameOverLeaves :
       /\ search.frames[k].depth >= 1
       /\ search.frames[k].st.board.halfmove_clock >= 150
       /\ ~is_insufficient_material(search.frames[k].st.board)
       /\ HasLegalMove(search.frames[k].st.board)
       /\ search.frames[k].value \cap {-CHECKMATE_SCORE, 0} = {}

(***************************************************************************)
(* A mate in one is scored CHECKMATE_SCORE                                 *)
(***************************************************************************)
\* A legal move of the position checkmates the opponent.
HasMatingMove(board) ==
  \E i \in 1..Len(generate_legal_moves(board)) :
    is_checkmate(push(board, generate_legal_moves(board)[i]))

\* The calls of _negamax in progress that returned _evaluate_board(board) at
\* once.
EvaluatedLeaves ==
  {k \in 1..Len(search.frames) :
     /\ search.frames[k].fn = "_negamax"
     /\ search.frames[k].at = "return"
     /\ search.frames[k].ordered_moves = <<>>}

\* C26: if the position has a legal move that checkmates the opponent,
\* best_move has score exactly +CHECKMATE_SCORE at every depth 1..3; every
\* evaluation of a position that is not checkmate lies strictly between
\* -CHECKMATE_SCORE and +CHECKMATE_SCORE, so no other line scores as high; at
\* depth 1 the returned move itself delivers checkmate.
MateInOneScoredCheckmate ==
  /\ (pc = "done" /\ request.op = "search" /\ HasMatingMove(RequestBoard))
       => /\ ~response.raised
          /\ response.value.score = CHECKMATE_SCORE
          /\ request.depth = 1
               => is_checkmate(push(RequestBoard, response.value.move))
  /\ pc = "searching"
       => \A k \in EvaluatedLeaves :
            \A value \in search.frames[k].value :
              IF is_checkmate(search.frames[k].st.board)
                THEN value = -CHECKMATE_SCORE
                ELSE -CHECKMATE_SCORE < value /\ value < CHECKMATE_SCORE

\* A search at depth 3 for Black, who has a mate in one, has returned the
\* score CHECKMATE_SCORE.
BlackMateInOneFoundAtDepthThree ==
  /\ pc = "done"
  /\ request.op = "search"
  /\ request.depth = 3
  /\ RequestBoard.turn = BLACK
  /\ HasMatingMove(RequestBoard)
  /\ ~response.raised
  /\ response.value.score = CHECKMATE_SCORE
====
